---- MODULE Spec2Model ----
(***************************************************************************)
(* A model of monodep, the monorepo dependency checker: the per-package    *)
(* Analyzer and the cross-workspace checkers (ConsistencyChecker,          *)
(* InternalChecker, PeerChecker, OwnershipChecker).                        *)
(*                                                                         *)
(* Strings are modelled as sequences of lexemes, so that the prefix tests  *)
(* and regular expressions of the source are computed, not assumed:        *)
(*   - a module specifier or a package name is a sequence of '/'-separated *)
(*     segments, each segment a sequence of lexemes: "@types/node" is      *)
(*     << <<"@","types">>, <<"node">> >>, "node:fs" is <<<<"node:","fs">>>>*)
(*     and "./util" is << <<".">>, <<"util">> >>;                          *)
(*   - a version range is a sequence of lexemes: "^18.0.0" is              *)
(*     <<"^","18",".","0",".","0">>, "workspace:*" is <<"workspace:","*">> *)
(*     and the empty string is << >>.                                      *)
(* A dependency map (a JS object) is a function from package names to      *)
(* ranges; its keys are iterated in the fixed order NameOrder.             *)
(***************************************************************************)
EXTENDS Naturals, Integers, Sequences, FiniteSets, TLC

VARIABLES
    \* ---- Analyzer.analyze (one call) ----
    pkg,                 \* the PackageInfo analysed
    scanResults,         \* Scanner.scan's result: a sequence of [isDev, parsed]
    ignoreDependencies,  \* config.ignoreDependencies
    fileIdx,             \* number of scanResults already reduced
    prodImports,         \* Set<string>, in insertion order
    devImports,          \* Set<string>, in insertion order
    dynamicCandidates,   \* the candidates collected so far
    result,              \* the AnalysisResult, NoResult before the return
    \* ---- the cross-workspace checkers ----
    packages,            \* PackageInfo[] (the WorkspaceGraph)
    rootDir,             \* the location of the root package
    usedImports,         \* Map<package name, Set<import name>>
    prodImportsByPackage, \* Map<package name, Set<import name>> (prod files)
    devImportsByPackage, \* Map<package name, Set<import name>> (dev files)
    policy,              \* OwnershipPolicy
    issues,              \* what the checker under test returned
    \* ---- PeerChecker.checkInstalledPeers ----
    installed,           \* the node_modules tree: [package location -> [dep -> path]]
    disk,                \* what each manifest path holds
    manifestCache,       \* PeerChecker.manifestCache
    diskReads,           \* number of fs.readFileSync calls per path
    pkgIdx,              \* index of the package of the outer loop
    depIdx,              \* index of the dependency of the inner loop
    resolvedCount,       \* the local resolvedCount
    elapsed,             \* Date.now() - startedAt, as last read
    \* ---- Parser.parse (one call) ----
    sourceFile,          \* the statements of the ts.SourceFile, in source order
    sourceIsDev,         \* Scanner's isDev of the file parsed
    parseIdx,            \* number of statements already visited
    parseAcc,            \* valueImports, typeOnlyImports, dynamicCandidates so far
    \* ---- MonorepoManager.getPackages and Scanner.scan ----
    manifestFiles,       \* packageJsonPaths with what each file holds
    loadIdx,             \* number of packageJsonPaths already read
    tree,                \* the source files on disk
    scanned,             \* [package index -> the files Scanner.scan returned]
    pathSep,             \* path.sep of the platform
    \* ---- the CLI action (one run) ----
    options,             \* the command line options
    config,              \* the DepcheckConfig loaded
    scans,               \* [package index -> Scanner.scan's parsed result]
    lookups,             \* number of "npm view" executions per dependency name
    versionCache,        \* the versions prefetch has stored
    stats,               \* the counters of the run
    packagesWithIssues,  \* Set<string> of package names
    reported,            \* the issues reported, in order
    rerunReported,         \* the issues a second run over the same tree reports
    exitCode,            \* process exit status (0 unless process.exit(1) ran)
    runIdx,              \* number of packages the per-package loop has handled
    \* ---- control ----
    pc

anVars == <<pkg, scanResults, ignoreDependencies, fileIdx, prodImports,
            devImports, dynamicCandidates, result>>
wsVars == <<packages, rootDir, usedImports, prodImportsByPackage,
            devImportsByPackage, policy, issues>>
ipVars == <<installed, disk, manifestCache, diskReads, pkgIdx, depIdx,
            resolvedCount, elapsed>>
prVars == <<sourceFile, sourceIsDev, parseIdx, parseAcc>>
fsVars == <<manifestFiles, loadIdx, tree, scanned, pathSep>>
runVars == <<options, config, scans, lookups, versionCache, stats,
             packagesWithIssues, reported, rerunReported, exitCode, runIdx>>
vars == <<anVars, wsVars, ipVars, prVars, fsVars, runVars, pc>>

----------------------------------------------------------------------------
(* Generic helpers *)

Range(s) == {s[i] : i \in 1..Len(s)}

\* Set.prototype.add on an insertion-ordered set
SetAdd(s, x) == IF x \in Range(s) THEN s ELSE Append(s, x)

\* { ...a, ...b }: the entries of b override those of a
Spread(a, b) ==
    [k \in (DOMAIN a) \cup (DOMAIN b) |-> IF k \in DOMAIN b THEN b[k] ELSE a[k]]

EmptyMap == [k \in {} |-> <<>>]

\* JS truthiness of a string: only the empty string is falsy
Truthy(str) == str # <<>>

\* obj[key] used as a condition: undefined (no such key) and "" are falsy
TruthyAt(obj, key) == key \in DOMAIN obj /\ Truthy(obj[key])

----------------------------------------------------------------------------
(* Names, specifiers and ranges of the model *)

lodash     == << <<"lodash">> >>
lodashFp   == << <<"lodash">>, <<"fp">> >>
typesNode  == << <<"@", "types">>, <<"node">> >>
relUtil    == << <<".">>, <<"util">> >>
nodeFs     == << <<"node:", "fs">> >>
fsName     == << <<"fs">> >>
pathName   == << <<"path">> >>
react      == << <<"react">> >>
pkgRoot    == << <<"root">> >>
pkgA       == << <<"@", "fixture">>, <<"a">> >>
pkgB       == << <<"@", "fixture">>, <<"b">> >>

rEmpty     == << >>
rStar      == <<"*">>
rWorkspace == <<"workspace:", "*">>
rFile      == <<"file:", "..", "/", "b">>
r1         == <<"^", "1", ".", "0", ".", "0">>
r2         == <<"^", "2", ".", "0", ".", "0">>
r17        == <<"^", "17", ".", "0", ".", "0">>
r18        == <<"^", "18", ".", "0", ".", "0">>
rExact123  == <<"1", ".", "2", ".", "3">>
rLatest    == <<"latest">>

\* The order in which the keys of a manifest's maps are iterated
NameOrder == <<lodash, react, typesNode, pkgRoot, pkgA, pkgB>>

Keys(obj) == SelectSeq(NameOrder, LAMBDA n : n \in DOMAIN obj)

----------------------------------------------------------------------------
(* PackageInfo (monorepo.ts) *)

PackageInfo(name, location, deps, devDeps, peerDeps, optionalDeps) ==
    [name |-> name, location |-> location,
     dependencies |-> deps, devDependencies |-> devDeps,
     peerDependencies |-> peerDeps, optionalDependencies |-> optionalDeps]

IsWorkspaceRangeOnly(version) ==
    /\ version # <<>>
    /\ version[1] = "workspace:"

\* version.startsWith('workspace:') || version.startsWith('file:')
IsLocalRange(version) ==
    /\ version # <<>>
    /\ version[1] \in {"workspace:", "file:"}

----------------------------------------------------------------------------
(* Analyzer (analyzer.ts) *)

\* null, as returned by getPackageName: no segment at all (a string always
\* splits into at least one segment; the empty string is << <<>> >>)
NoName == << >>
EmptyString == << << >> >>

\* imp.startsWith('.')
StartsWithDot(imp) == imp[1] # <<>> /\ imp[1][1] = "."

\* path.isAbsolute(imp), POSIX: the specifier starts with '/'
IsAbsolute(imp) == Len(imp) >= 2 /\ imp[1] = <<>>

\* dep.startsWith('@types/')
StartsWithTypes(dep) == Len(dep) >= 2 /\ dep[1] = <<"@", "types">>

\* module.builtinModules, as far as the model's specifiers reach
builtins == {fsName, pathName}

isRuntimeBuiltinImportSpecifier(importPath) ==
    \/ importPath = << <<"bun">> >>
    \/ importPath[1] # <<>> /\ importPath[1][1] = "bun:"

normalizeImportSpecifier(importPath) ==
    IF importPath[1] # <<>> /\ importPath[1][1] = "node:"
    THEN <<Tail(importPath[1])>> \o Tail(importPath)
    ELSE importPath

getPackageName(importPath) ==
    IF importPath[1] # <<>> /\ importPath[1][1] = "@"
    THEN IF Len(importPath) >= 2 THEN SubSeq(importPath, 1, 2) ELSE NoName
    ELSE <<importPath[1]>>

\* The package name an import record contributes, NoName when it is dropped
ImportedPackage(imp) ==
    IF StartsWithDot(imp) \/ IsAbsolute(imp) \/ isRuntimeBuiltinImportSpecifier(imp)
    THEN NoName
    ELSE LET packageName == getPackageName(normalizeImportSpecifier(imp))
         IN  IF packageName # NoName /\ packageName # EmptyString
                /\ packageName \notin builtins
             THEN packageName
             ELSE NoName

\* The loop over parsedImports.valueImports; acc is [prod, dev]
RECURSIVE ReduceValueImports(_, _, _)
ReduceValueImports(imports, isDev, acc) ==
    IF imports = <<>> THEN acc
    ELSE LET packageName == ImportedPackage(Head(imports))
             next == IF packageName = NoName THEN acc
                     ELSE IF isDev
                          THEN [acc EXCEPT !.dev = SetAdd(@, packageName)]
                          ELSE [acc EXCEPT !.prod = SetAdd(@, packageName)]
         IN  ReduceValueImports(Tail(imports), isDev, next)

RECURSIVE ReduceTypeOnlyImportsDemoting(_, _)
ReduceTypeOnlyImportsDemoting(imports, acc) ==
    IF imports = <<>> THEN acc
    ELSE LET packageName == ImportedPackage(Head(imports))
             next == IF packageName = NoName THEN acc
                     ELSE [acc EXCEPT !.dev = SetAdd(@, packageName)]
         IN  ReduceTypeOnlyImportsDemoting(Tail(imports), next)

\* The loop over parsedImports.typeOnlyImports
RECURSIVE ReduceTypeOnlyImports(_, _)
ReduceTypeOnlyImports(imports, acc) ==
    IF imports = <<>> THEN acc
    ELSE LET packageName == ImportedPackage(Head(imports))
             next == IF packageName = NoName \/ packageName \in Range(acc.prod)
                     THEN acc
                     ELSE [acc EXCEPT !.dev = SetAdd(@, packageName)]
         IN  ReduceTypeOnlyImports(Tail(imports), next)

\* One iteration of the loop over scanResults
ReduceFile(scan, acc) ==
    ReduceTypeOnlyImports(scan.parsed.typeOnlyImports,
        ReduceValueImports(scan.parsed.valueImports, scan.isDev, acc))

\* allDeps = { ...deps, ...devDeps, ...peerDeps, ...optionalDeps }
AllDeps(p) ==
    Spread(Spread(Spread(p.dependencies, p.devDependencies),
                  p.peerDependencies), p.optionalDependencies)

UnusedIgnoringDevImports(p, prod, dev, ignore) ==
    SelectSeq(Keys(AllDeps(p)), LAMBDA dep :
        /\ ~StartsWithTypes(dep)
        /\ dep \notin ignore
        /\ dep \notin Range(prod))

Unused(p, prod, dev, ignore) ==
    SelectSeq(Keys(AllDeps(p)), LAMBDA dep :
        /\ ~StartsWithTypes(dep)
        /\ dep \notin ignore
        /\ dep \notin Range(prod) /\ dep \notin Range(dev))

\* new Set([...prodImports, ...devImports])
RECURSIVE AddAll(_, _)
AddAll(s, t) == IF t = <<>> THEN s ELSE AddAll(SetAdd(s, Head(t)), Tail(t))

AllImports(prod, dev) == AddAll(prod, dev)

MissingFromProd(p, prod, dev, ignore) ==
    SelectSeq(prod, LAMBDA imp :
        /\ imp \notin ignore
        /\ ~TruthyAt(AllDeps(p), imp))

Missing(p, prod, dev, ignore) ==
    SelectSeq(AllImports(prod, dev), LAMBDA imp :
        /\ imp \notin ignore
        /\ ~TruthyAt(AllDeps(p), imp))

WrongTypeEntry(dep, expected, actual) ==
    [dependency |-> dep, expected |-> expected, actual |-> actual]

RECURSIVE ToEntries(_, _, _)
ToEntries(names, expected, actual) ==
    IF names = <<>> THEN <<>>
    ELSE <<WrongTypeEntry(Head(names), expected, actual)>>
         \o ToEntries(Tail(names), expected, actual)

\* "Check for devDependencies used in prod code"
WrongTypeDevInProd(p, prod) ==
    ToEntries(SelectSeq(Keys(p.devDependencies), LAMBDA dep :
                  /\ dep \in Range(prod)
                  /\ ~StartsWithTypes(dep)
                  /\ ~TruthyAt(p.peerDependencies, dep)),
              "dependencies", "devDependencies")

\* "Check for dependencies used ONLY in dev code"
WrongTypeProdInDev(p, prod, dev) ==
    ToEntries(SelectSeq(Keys(p.dependencies), LAMBDA dep :
                  /\ dep \in Range(dev) /\ dep \notin Range(prod)
                  /\ ~StartsWithTypes(dep)
                  /\ ~TruthyAt(p.peerDependencies, dep)),
              "devDependencies", "dependencies")

WrongType(p, prod, dev) ==
    WrongTypeDevInProd(p, prod) \o WrongTypeProdInDev(p, prod, dev)

NoResult == [returned |-> FALSE]

AnalysisResult(p, prod, dev, dyn, ignore) ==
    [returned |-> TRUE,
     unused |-> Unused(p, prod, dev, ignore),
     missing |-> Missing(p, prod, dev, ignore),
     wrongType |-> WrongType(p, prod, dev),
     dynamicCandidates |-> dyn,
     prodImports |-> prod,
     devImports |-> dev]

----------------------------------------------------------------------------
(* Bounds and input domains *)

\* Number of files Scanner.scan returns for the analysed package
MaxFiles == 2

\* Specifiers the Parser may report for the files of the analysed package
AnSpecifiers == {lodash, lodashFp, typesNode, relUtil}

ParseResult(value, typeOnly, dyn) ==
    [valueImports |-> value, typeOnlyImports |-> typeOnly, dynamicCandidates |-> dyn]

\* Specifiers the Parser may report as type-only imports
AnTypeOnlySpecifiers == {lodash, typesNode}

\* What Parser.parse may return for a file of the model: one value import or
\* one type-only import
AnParseResults ==
    {ParseResult(<<imp>>, <<>>, <<>>) : imp \in AnSpecifiers}
    \cup {ParseResult(<<>>, <<imp>>, <<>>) : imp \in AnTypeOnlySpecifiers}

\* The scanned files of the model: a file without imports, a file with one
\* dynamic candidate, and prod and dev files with one import
AnScanResults ==
    {[isDev |-> FALSE, parsed |-> ParseResult(<<>>, <<>>, <<>>)],
     [isDev |-> FALSE,
      parsed |-> ParseResult(<<>>, <<>>, <<[expression |-> "moduleName", line |-> 1]>>)]}
    \cup [isDev : BOOLEAN, parsed : AnParseResults]

AnScans == UNION {[1..n -> AnScanResults] : n \in 0..MaxFiles}

\* A dependency map of the analysed package: no entry, or one entry (lodash
\* at "^1.0.0" or at the empty range, @types/node at "^1.0.0")
AnEntries == {<<lodash, r1>>, <<lodash, rEmpty>>, <<typesNode, r1>>}

AnMapsOf(entries) == {EmptyMap} \cup {[k \in {e[1]} |-> e[2]] : e \in entries}

AnMaps == AnMapsOf(AnEntries)

\* The manifests of the model: at most two of the four maps are non-empty
AnPackages ==
    {PackageInfo(pkgA, "/repo/a", d, v, p, o) :
        d \in AnMaps, v \in AnMaps,
        p \in AnMapsOf({<<lodash, r1>>, <<lodash, rEmpty>>}),
        o \in AnMapsOf({<<lodash, r1>>})}

AnManifests ==
    {p \in AnPackages :
        Cardinality({k \in {"dependencies", "devDependencies", "peerDependencies",
                            "optionalDependencies"} : p[k] # EmptyMap}) <= 2}

AnIgnoreLists == {{}, {lodash}}

----------------------------------------------------------------------------
(* Idle values of the variables a specification does not use *)

NoPackage == PackageInfo(NoName, "", EmptyMap, EmptyMap, EmptyMap, EmptyMap)

AnIdle ==
    /\ pkg = NoPackage
    /\ scanResults = <<>>
    /\ ignoreDependencies = {}
    /\ fileIdx = 0
    /\ prodImports = <<>>
    /\ devImports = <<>>
    /\ dynamicCandidates = <<>>
    /\ result = NoResult

WsIdle ==
    /\ packages = <<>>
    /\ rootDir = ""
    /\ usedImports = EmptyMap
    /\ policy = "root-shared"
    /\ prodImportsByPackage = EmptyMap
    /\ devImportsByPackage = EmptyMap
    /\ issues = <<>>

IpIdle ==
    /\ installed = EmptyMap
    /\ disk = EmptyMap
    /\ manifestCache = EmptyMap
    /\ diskReads = EmptyMap
    /\ pkgIdx = 0
    /\ depIdx = 0
    /\ resolvedCount = 0
    /\ elapsed = 0

NoParseAcc == [valueImports |-> <<>>, typeOnlyImports |-> <<>>,
               dynamicCandidates |-> <<>>]

PrIdle ==
    /\ sourceFile = <<>>
    /\ sourceIsDev = FALSE
    /\ parseIdx = 0
    /\ parseAcc = NoParseAcc

FsIdle ==
    /\ manifestFiles = <<>>
    /\ loadIdx = 0
    /\ tree = {}
    /\ scanned = <<>>
    /\ pathSep = "/"

RunIdle ==
    /\ options = EmptyMap
    /\ config = EmptyMap
    /\ scans = <<>>
    /\ lookups = EmptyMap
    /\ versionCache = EmptyMap
    /\ stats = EmptyMap
    /\ packagesWithIssues = {}
    /\ reported = <<>>
    /\ rerunReported = <<>>
    /\ exitCode = 0
    /\ runIdx = 0

OtherIdle == PrIdle /\ FsIdle /\ RunIdle

----------------------------------------------------------------------------
(* Specification SpecAnalyze: one call of Analyzer.analyze *)

InitAnalyze ==
    /\ pkg \in AnManifests
    /\ scanResults \in AnScans
    /\ ignoreDependencies \in AnIgnoreLists
    /\ fileIdx = 0
    /\ prodImports = <<>>
    /\ devImports = <<>>
    /\ dynamicCandidates = <<>>
    /\ result = NoResult
    /\ WsIdle
    /\ IpIdle
    /\ OtherIdle
    /\ pc = "analyze"

\* for (const candidate of parsedImports.dynamicCandidates) push {file, ...}
RECURSIVE CollectCandidates(_, _)
CollectCandidates(file, cands) ==
    IF cands = <<>> THEN <<>>
    ELSE <<[file |-> file, line |-> Head(cands).line,
            expression |-> Head(cands).expression]>>
         \o CollectCandidates(file, Tail(cands))

\* One iteration of "for (const { file, isDev } of scanResults)"
AnalyzeFile ==
    /\ pc = "analyze"
    /\ fileIdx < Len(scanResults)
    /\ LET scan == scanResults[fileIdx + 1]
           acc == ReduceFile(scan, [prod |-> prodImports, dev |-> devImports])
       IN  /\ prodImports' = acc.prod
           /\ devImports' = acc.dev
           /\ dynamicCandidates' = dynamicCandidates
                \o CollectCandidates(fileIdx + 1, scan.parsed.dynamicCandidates)
    /\ fileIdx' = fileIdx + 1
    /\ UNCHANGED <<pkg, scanResults, ignoreDependencies, result, wsVars, ipVars, prVars, fsVars, runVars, pc>>

\* The rest of analyze: unused, missing, wrongType and the return
AnalyzeReport ==
    /\ pc = "analyze"
    /\ fileIdx = Len(scanResults)
    /\ result' = AnalysisResult(pkg, prodImports, devImports, dynamicCandidates,
                                ignoreDependencies)
    /\ pc' = "done"
    /\ UNCHANGED <<pkg, scanResults, ignoreDependencies, fileIdx, prodImports,
                   devImports, dynamicCandidates, wsVars, ipVars, prVars, fsVars, runVars>>

NextAnalyze == AnalyzeFile \/ AnalyzeReport

SpecAnalyze == InitAnalyze /\ [][NextAnalyze]_vars

----------------------------------------------------------------------------
(* Claims about Analyzer.analyze, checked under SpecAnalyze *)

DeclaredNames(p) ==
    (DOMAIN p.dependencies) \cup (DOMAIN p.devDependencies)
    \cup (DOMAIN p.peerDependencies) \cup (DOMAIN p.optionalDependencies)

ImportNames == Range(prodImports) \cup Range(devImports)

\* C1: the unused list returned by analyze is disjoint from
\* prodImports \cup devImports: a name added to either import set is never
\* reported as unused.
C1_UnusedDisjointFromImports ==
    result.returned =>
        Range(result.unused) \cap
            (Range(result.prodImports) \cup Range(result.devImports)) = {}

\* C1 witness: analyze returned for a package declaring a dependency (not an
\* @types/ package, not ignored) that only dev-tagged or type-only imports
\* use, and the dependency is not listed as unused.
C1_Witness ==
    /\ result.returned
    /\ \E dep \in DeclaredNames(pkg) :
          /\ ~StartsWithTypes(dep)
          /\ dep \notin ignoreDependencies
          /\ dep \in Range(result.devImports)
          /\ dep \notin Range(result.prodImports)
          /\ dep \notin Range(result.unused)

\* C2: no name in the missing list returned by analyze is a key of any of
\* the package's runtime, dev, peer or optional dependency maps, whatever
\* range string (the empty string included) it is declared with.
C2_MissingNotDeclared ==
    result.returned =>
        Range(result.missing) \cap DeclaredNames(pkg) = {}

NoDuplicates(s) == \A i, j \in 1..Len(s) : s[i] = s[j] => i = j

\* C3: wrongType holds an entry expecting 'dependencies' exactly for each
\* name declared in devDependencies that is in prodImports, and an entry
\* expecting 'devDependencies' exactly for each name declared in dependencies
\* that is in devImports and not in prodImports; in both directions a name is
\* exempt when it is an @types/ package or is also declared in
\* peerDependencies, and no dependency appears twice for one direction.
C3_WrongTypeExact ==
    result.returned =>
        LET exempt(dep) == StartsWithTypes(dep) \/ dep \in DOMAIN pkg.peerDependencies
            toProd == {dep \in DOMAIN pkg.devDependencies :
                          dep \in Range(result.prodImports) /\ ~exempt(dep)}
            toDev == {dep \in DOMAIN pkg.dependencies :
                          /\ dep \in Range(result.devImports)
                          /\ dep \notin Range(result.prodImports)
                          /\ ~exempt(dep)}
            listed(expected) ==
                SelectSeq(result.wrongType, LAMBDA e : e.expected = expected)
        IN  /\ {e.dependency : e \in Range(listed("dependencies"))} = toProd
            /\ {e.dependency : e \in Range(listed("devDependencies"))} = toDev
            /\ NoDuplicates(listed("dependencies"))
            /\ NoDuplicates(listed("devDependencies"))
            /\ \A e \in Range(result.wrongType) :
                  e.actual = IF e.expected = "dependencies"
                             THEN "devDependencies" ELSE "dependencies"

----------------------------------------------------------------------------
(* The workspace graphs of the cross-workspace specifications *)

\* Number of packages of the graph, the root package included
MaxPackages == 3

\* MonorepoManager.getPackages pushes the root manifest last; the names of a
\* graph are distinct (the data model's "unique within the graph")
WsNames == <<pkgA, pkgB, pkgRoot, << <<"@", "fixture">>, <<"c">> >>,
             << <<"@", "fixture">>, <<"d">> >> >>
WsLocations == <<"/repo/packages/a", "/repo/packages/b", "/repo",
                 "/repo/packages/c", "/repo/packages/d">>
RootLocation == "/repo"

\* The graphs of n packages whose i-th package is drawn from PackagesAt(i)
RECURSIVE GraphsOf(_, _)
GraphsOf(PackagesAt(_), n) ==
    IF n = 0 THEN {<<>>}
    ELSE {Append(g, p) : g \in GraphsOf(PackagesAt, n - 1), p \in PackagesAt(n)}

OneEntryMaps(dep, ranges) == {[k \in {dep} |-> r] : r \in ranges}

NonEmptyMaps(p) ==
    {k \in {"dependencies", "devDependencies", "peerDependencies",
            "optionalDependencies"} : p[k] # EmptyMap}

----------------------------------------------------------------------------
(* ConsistencyChecker (consistency.ts) *)

ConsistencyAllDepsRuntimeLast(p) ==
    Spread(Spread(p.peerDependencies, p.devDependencies), p.dependencies)

\* allDeps = { ...pkg.dependencies, ...pkg.devDependencies, ...pkg.peerDependencies }
ConsistencyAllDeps(p) ==
    Spread(Spread(p.dependencies, p.devDependencies), p.peerDependencies)

IndexOf(s, Test(_)) ==
    IF \E i \in 1..Len(s) : Test(s[i])
    THEN CHOOSE i \in 1..Len(s) : Test(s[i]) /\ \A j \in 1..(i - 1) : ~Test(s[j])
    ELSE 0

\* versionMap.get(version)!.push(pkg.name), creating the entries as needed;
\* a Map is a sequence of entries in insertion order
RecordVersion(dependencyMap, dep, version, name) ==
    LET withDep == IF IndexOf(dependencyMap, LAMBDA e : e.dependency = dep) = 0
                   THEN Append(dependencyMap, [dependency |-> dep, versions |-> <<>>])
                   ELSE dependencyMap
        i == IndexOf(withDep, LAMBDA e : e.dependency = dep)
        versionMap == withDep[i].versions
        withVersion == IF IndexOf(versionMap, LAMBDA v : v.version = version) = 0
                       THEN Append(versionMap, [version |-> version, packages |-> <<>>])
                       ELSE versionMap
        j == IndexOf(withVersion, LAMBDA v : v.version = version)
    IN  [withDep EXCEPT ![i].versions =
            [withVersion EXCEPT ![j].packages = Append(@, name)]]

\* for (const [dep, version] of Object.entries(allDeps))
RECURSIVE RecordPackage(_, _, _)
RecordPackage(dependencyMap, p, deps) ==
    IF deps = <<>> THEN dependencyMap
    ELSE LET dep == Head(deps)
             version == ConsistencyAllDeps(p)[dep]
         IN  RecordPackage(IF IsLocalRange(version) THEN dependencyMap
                           ELSE RecordVersion(dependencyMap, dep, version, p.name),
                           p, Tail(deps))

\* for (const pkg of packages)
RECURSIVE BuildDependencyMap(_, _)
BuildDependencyMap(dependencyMap, pkgs) ==
    IF pkgs = <<>> THEN dependencyMap
    ELSE BuildDependencyMap(
             RecordPackage(dependencyMap, Head(pkgs), Keys(ConsistencyAllDeps(Head(pkgs)))),
             Tail(pkgs))

IsMismatchAlways(entry) == Len(entry.versions) >= 1

\* versionMap.size > 1
IsMismatch(entry) == Len(entry.versions) > 1

ConsistencyCheck(pkgs) == SelectSeq(BuildDependencyMap(<<>>, pkgs), IsMismatch)

----------------------------------------------------------------------------
(* Specification SpecConsistency: one call of ConsistencyChecker.check *)

\* The manifests of the model declare lodash in at most two of the runtime,
\* dev and peer maps (monorepo.ts:44-50 loads no optionalDependencies)
CcPackagesAt(i) ==
    {p \in {PackageInfo(WsNames[i], WsLocations[i], d, v, pe, o) :
                d \in {EmptyMap} \cup OneEntryMaps(lodash, {r1, r2, rWorkspace}),
                v \in {EmptyMap} \cup OneEntryMaps(lodash, {r1, r2}),
                pe \in {EmptyMap} \cup OneEntryMaps(lodash, {r2}),
                o \in {EmptyMap}} :
        Cardinality(NonEmptyMaps(p)) <= 2}

CcGraphs == GraphsOf(CcPackagesAt, MaxPackages)

InitConsistency ==
    /\ packages \in CcGraphs
    /\ rootDir = RootLocation
    /\ usedImports = EmptyMap
    /\ policy = "root-shared"
    /\ prodImportsByPackage = EmptyMap
    /\ devImportsByPackage = EmptyMap
    /\ issues = <<>>
    /\ AnIdle
    /\ IpIdle
    /\ OtherIdle
    /\ pc = "consistency"

CheckConsistency ==
    /\ pc = "consistency"
    /\ issues' = ConsistencyCheck(packages)
    /\ pc' = "done"
    /\ UNCHANGED <<packages, rootDir, usedImports, prodImportsByPackage,
                   devImportsByPackage, policy, anVars, prVars, fsVars, runVars, ipVars>>

NextConsistency == CheckConsistency

SpecConsistency == InitConsistency /\ [][NextConsistency]_vars

----------------------------------------------------------------------------
(* Claims about ConsistencyChecker.check, checked under SpecConsistency *)

PackageSet == Range(packages)

AllDepNames == UNION {DeclaredNames(p) : p \in PackageSet}

MapsOf(p) ==
    {p.dependencies, p.devDependencies, p.peerDependencies, p.optionalDependencies}

\* The ranges p declares dep with, in any of its four maps
DeclaredRanges(p, dep) == {m[dep] : m \in {m \in MapsOf(p) : dep \in DOMAIN m}}

\* The one range ConsistencyChecker reads for dep in p: the peer entry, else
\* the dev entry, else the runtime entry (optionalDependencies is not read)
EffectiveRanges(p, dep) ==
    IF dep \in DOMAIN p.peerDependencies THEN {p.peerDependencies[dep]}
    ELSE IF dep \in DOMAIN p.devDependencies THEN {p.devDependencies[dep]}
    ELSE IF dep \in DOMAIN p.dependencies THEN {p.dependencies[dep]}
    ELSE {}

\* The mismatch records are exactly those of the dependencies with more than
\* one distinct non-local range, where RangesOf(p, dep) are the ranges package
\* p counts as declaring; each record lists every such range once, with
\* exactly the packages declaring it
MismatchesMatch(RangesOf(_, _)) ==
    LET external(dep) ==
            {r \in UNION {RangesOf(p, dep) : p \in PackageSet} : ~IsLocalRange(r)}
        declaring(dep, r) == {p.name : p \in {q \in PackageSet : r \in RangesOf(q, dep)}}
        records(dep) == SelectSeq(issues, LAMBDA m : m.dependency = dep)
    IN  /\ \A m \in Range(issues) : m.dependency \in AllDepNames
        /\ \A dep \in AllDepNames :
              /\ Len(records(dep)) = IF Cardinality(external(dep)) > 1 THEN 1 ELSE 0
              /\ \A m \in Range(records(dep)) :
                    /\ {v.version : v \in Range(m.versions)} = external(dep)
                    /\ Len(m.versions) = Cardinality(external(dep))
                    /\ \A v \in Range(m.versions) :
                          /\ Range(v.packages) = declaring(dep, v.version)
                          /\ NoDuplicates(v.packages)

\* C4 as stated: a mismatch record for a dependency iff the packages of the
\* graph declare it (in any map) with more than one distinct range that is
\* not a workspace:/file: range; the record lists every such range exactly
\* once, each with exactly the set of packages that declare it at that range.
C4_MismatchIffDeclaredRangesDiffer ==
    pc = "done" => MismatchesMatch(DeclaredRanges)

\* C4 as amended: the same, where each package counts for a dependency with
\* one range only: its peer entry, else its dev entry, else its runtime entry.
C4_MismatchIffEffectiveRangesDiffer ==
    pc = "done" => MismatchesMatch(EffectiveRanges)

\* C4 witness: check returned a record in which one range is listed with two
\* packages and another range with a third.
C4_Witness ==
    /\ pc = "done"
    /\ \E m \in Range(issues) :
          /\ Len(m.versions) = 2
          /\ \E v \in Range(m.versions) : Len(v.packages) >= 2

----------------------------------------------------------------------------
(* InternalChecker (internal-checker.ts) *)

InternalIssue(packageName, dependency, type, detail) ==
    [packageName |-> packageName, dependency |-> dependency, type |-> type,
     detail |-> detail]

\* new Set(packages.map(p => p.name))
WorkspacePackageNames(pkgs) == {p.name : p \in Range(pkgs)}

MapSeq(s, F(_)) == [i \in 1..Len(s) |-> F(s[i])]

\* { ...pkg.dependencies, ...pkg.devDependencies, ...pkg.peerDependencies,
\*   ...pkg.optionalDependencies }
InternalAllDeps(p) ==
    Spread(Spread(Spread(p.dependencies, p.devDependencies), p.peerDependencies),
           p.optionalDependencies)

\* "Check 1: Workspace packages should use workspace: protocol"; the detail
\* is the version quoted in the message
NotWorkspaceIssues(p, names) ==
    MapSeq(SelectSeq(Keys(InternalAllDeps(p)), LAMBDA depName :
                /\ depName \in names
                /\ ~IsLocalRange(InternalAllDeps(p)[depName])),
           LAMBDA depName :
                InternalIssue(p.name, depName, "not-workspace", InternalAllDeps(p)[depName]))

\* "Check 2: Internal packages used in code but not listed in dependencies"
UnlistedInternalIssues(p, names, used) ==
    IF p.name \notin DOMAIN used THEN <<>>
    ELSE MapSeq(SelectSeq(used[p.name], LAMBDA imp :
                    /\ imp \in names /\ imp # p.name
                    /\ ~TruthyAt(InternalAllDeps(p), imp)),
                LAMBDA imp : InternalIssue(p.name, imp, "unlisted-internal", <<>>))

RECURSIVE InternalCheckFrom(_, _, _)
InternalCheckFrom(pkgs, names, used) ==
    IF pkgs = <<>> THEN <<>>
    ELSE NotWorkspaceIssues(Head(pkgs), names)
         \o UnlistedInternalIssues(Head(pkgs), names, used)
         \o InternalCheckFrom(Tail(pkgs), names, used)

InternalCheck(pkgs, used) ==
    InternalCheckFrom(pkgs, WorkspacePackageNames(pkgs), used)

----------------------------------------------------------------------------
(* Specification SpecInternal: one call of InternalChecker.check *)

\* Number of packages of the graph handed to InternalChecker.check
MaxInternalPackages == 2

\* Each manifest declares, in at most two maps, the workspace package
\* @fixture/b (at a fixed version, at workspace:*, at file:, or at the empty
\* range) and the external package lodash
InPackagesAt(i) ==
    {p \in {PackageInfo(WsNames[i], WsLocations[i], d, v, pe, o) :
                d \in {EmptyMap} \cup OneEntryMaps(lodash, {r1})
                       \cup OneEntryMaps(pkgB, {rExact123, rWorkspace, rEmpty}),
                v \in {EmptyMap} \cup OneEntryMaps(pkgB, {rWorkspace}),
                pe \in {EmptyMap},
                o \in {EmptyMap} \cup OneEntryMaps(pkgB, {rFile})} :
        Cardinality(NonEmptyMaps(p)) <= 2}

InGraphs == GraphsOf(InPackagesAt, MaxInternalPackages)

\* The import summary index.ts records for a package that is not skipped
InImportSummaries == {<<>>, <<lodash, pkgB>>}

\* usedImports has no entry for a package listed in config.skipPackages
InUsedImports(g) ==
    UNION {[names -> InImportSummaries] : names \in SUBSET WorkspacePackageNames(g)}

InitInternal ==
    /\ packages \in InGraphs
    /\ usedImports \in InUsedImports(packages)
    /\ rootDir = RootLocation
    /\ policy = "root-shared"
    /\ prodImportsByPackage = EmptyMap
    /\ devImportsByPackage = EmptyMap
    /\ issues = <<>>
    /\ AnIdle
    /\ IpIdle
    /\ OtherIdle
    /\ pc = "internal"

CheckInternal ==
    /\ pc = "internal"
    /\ issues' = InternalCheck(packages, usedImports)
    /\ pc' = "done"
    /\ UNCHANGED <<packages, rootDir, usedImports, prodImportsByPackage,
                   devImportsByPackage, policy, anVars, prVars, fsVars, runVars, ipVars>>

NextInternal == CheckInternal

SpecInternal == InitInternal /\ [][NextInternal]_vars

----------------------------------------------------------------------------
(* Claims about InternalChecker.check, checked under SpecInternal *)

HasIssue(a, b, type) ==
    \E issue \in Range(issues) :
        issue.packageName = a /\ issue.dependency = b /\ issue.type = type

\* The range of the last of p's runtime, dev, peer and optional maps that
\* declares dep: what { ...dependencies, ...devDependencies,
\* ...peerDependencies, ...optionalDependencies } holds for dep
LastDeclaredRanges(p, dep) ==
    IF dep \in DOMAIN p.optionalDependencies THEN {p.optionalDependencies[dep]}
    ELSE IF dep \in DOMAIN p.peerDependencies THEN {p.peerDependencies[dep]}
    ELSE IF dep \in DOMAIN p.devDependencies THEN {p.devDependencies[dep]}
    ELSE IF dep \in DOMAIN p.dependencies THEN {p.dependencies[dep]}
    ELSE {}

\* The range names the workspace: or the file: protocol
UsesLocalProtocol(r) == r # <<>> /\ r[1] \in {"workspace:", "file:"}

NotWorkspaceIff(RangesOf(_, _)) ==
    \A a \in PackageSet : \A b \in AllDepNames \cup WorkspacePackageNames(packages) :
        HasIssue(a.name, b, "not-workspace")
        <=> /\ b \in WorkspacePackageNames(packages)
            /\ \E r \in RangesOf(a, b) : ~UsesLocalProtocol(r)

\* C5 as stated: a not-workspace issue for package A and dependency B iff B
\* is the name of a workspace package and A declares B in one of its
\* dependency maps with a range that starts with neither 'workspace:' nor
\* 'file:'.
C5_NotWorkspaceIffDeclaredNonLocal ==
    pc = "done" => NotWorkspaceIff(DeclaredRanges)

\* C5 as amended: the same, where the range is that of the last of A's
\* runtime, dev, peer and optional maps that declares B.
C5_NotWorkspaceIffLastDeclaredNonLocal ==
    pc = "done" =>
        /\ NotWorkspaceIff(LastDeclaredRanges)
        /\ \A issue \in Range(issues) :
              issue.type = "not-workspace" => ~UsesLocalProtocol(issue.detail)

\* C5 witness: check returned a not-workspace issue for a package that
\* declares the workspace package at a fixed version, and none for another
\* package that declares it at workspace:* or file:.
C5_Witness ==
    /\ pc = "done"
    /\ \E a, c \in PackageSet : \E b \in WorkspacePackageNames(packages) :
          /\ HasIssue(a.name, b, "not-workspace")
          /\ rExact123 \in DeclaredRanges(a, b)
          /\ ~HasIssue(c.name, b, "not-workspace")
          /\ DeclaredRanges(c, b) # {}
          /\ \A r \in DeclaredRanges(c, b) : UsesLocalProtocol(r)

\* C6: an unlisted-internal issue for package A and name B iff B is the name
\* of a workspace package other than A, B is in A's import summary, and B is
\* a key of none of A's declared dependency maps; a package importing its own
\* name never gets such an issue.
C6_UnlistedInternalIffImportedUndeclared ==
    pc = "done" =>
        \A a \in PackageSet : \A b \in AllDepNames \cup WorkspacePackageNames(packages) :
            HasIssue(a.name, b, "unlisted-internal")
            <=> /\ b \in WorkspacePackageNames(packages)
                /\ b # a.name
                /\ a.name \in DOMAIN usedImports
                /\ b \in Range(usedImports[a.name])
                /\ b \notin DeclaredNames(a)

----------------------------------------------------------------------------
(* PeerChecker.check (the PeerChecker class of the peer-checker module) *)

rOr17Or18 == r17 \o <<"||">> \o r18

\* The numerals of the model and their values
NumVal == [l \in {"0", "1", "2", "3", "17", "18", "19"} |->
              CASE l = "0" -> 0 [] l = "1" -> 1 [] l = "2" -> 2 [] l = "3" -> 3
                [] l = "17" -> 17 [] l = "18" -> 18 [] l = "19" -> 19]

IsNum(l) == l \in DOMAIN NumVal

NoVersion == <<"null">>

\* The lexemes made only of characters of the class [\^~>=<]
ComparatorChars == {"^", "~", ">", "=", "<", ">=", "<="}

RECURSIVE StripComparatorPrefix(_)
StripComparatorPrefix(version) ==
    IF version # <<>> /\ Head(version) \in ComparatorChars
    THEN StripComparatorPrefix(Tail(version))
    ELSE version

\* cleaned.match(/\d+\.\d+\.\d+/): the first M.m.p-shaped part, if any
IsVersionAt(s, i) ==
    /\ i + 4 <= Len(s)
    /\ IsNum(s[i]) /\ s[i + 1] = "." /\ IsNum(s[i + 2]) /\ s[i + 3] = "."
    /\ IsNum(s[i + 4])

FirstVersion(s) ==
    IF \E i \in 1..Len(s) : IsVersionAt(s, i)
    THEN LET i == CHOOSE k \in 1..Len(s) :
                      IsVersionAt(s, k) /\ \A j \in 1..(k - 1) : ~IsVersionAt(s, j)
         IN  SubSeq(s, i, i + 4)
    ELSE NoVersion

cleanVersion(version) ==
    IF IsLocalRange(version) THEN NoVersion
    ELSE FirstVersion(StripComparatorPrefix(version))

\* range.replace(/\|\|/g, ' || ')
RECURSIVE SpaceOutOr(_)
SpaceOutOr(range) ==
    IF range = <<>> THEN <<>>
    ELSE (IF Head(range) = "||" THEN <<" ", "||", " ">> ELSE <<Head(range)>>)
         \o SpaceOutOr(Tail(range))

\* .replace(/\s+/g, ' ')
RECURSIVE CollapseSpaces(_)
CollapseSpaces(range) ==
    IF range = <<>> THEN <<>>
    ELSE IF Head(range) = " " /\ Tail(range) # <<>> /\ Head(Tail(range)) = " "
         THEN CollapseSpaces(Tail(range))
         ELSE <<Head(range)>> \o CollapseSpaces(Tail(range))

\* .trim()
RECURSIVE Trim(_)
Trim(range) ==
    IF range # <<>> /\ Head(range) = " " THEN Trim(Tail(range))
    ELSE IF range # <<>> /\ range[Len(range)] = " "
         THEN Trim(SubSeq(range, 1, Len(range) - 1))
         ELSE range

cleanRange(range) == Trim(CollapseSpaces(SpaceOutOr(range)))

RECURSIVE SplitOn(_, _)
SplitOn(s, sep) ==
    IF \E i \in 1..Len(s) : s[i] = sep
    THEN LET i == CHOOSE k \in 1..Len(s) : s[k] = sep /\ \A j \in 1..(k - 1) : s[j] # sep
         IN  <<SubSeq(s, 1, i - 1)>> \o SplitOn(SubSeq(s, i + 1, Len(s)), sep)
    ELSE <<s>>

\* semver: the M.m.p triple of a version
Triple(v) == <<NumVal[v[1]], NumVal[v[3]], NumVal[v[5]]>>

TripleLess(a, b) ==
    \/ a[1] < b[1]
    \/ a[1] = b[1] /\ a[2] < b[2]
    \/ a[1] = b[1] /\ a[2] = b[2] /\ a[3] < b[3]

\* semver: the exclusive upper end of ^M.m.p
CaretCeiling(t) ==
    IF t[1] > 0 THEN <<t[1] + 1, 0, 0>>
    ELSE IF t[2] > 0 THEN <<0, t[2] + 1, 0>>
    ELSE <<0, 0, t[3] + 1>>

SemverOperators == {"^", "~", ">=", "<=", ">", "<", "="}

\* semver: the comparators the model reads are the empty one, * and an
\* optional operator followed by a full M.m.p version
ValidComparator(c) ==
    \/ c = <<>>
    \/ c = <<"*">>
    \/ Len(c) = 5 /\ IsVersionAt(c, 1)
    \/ Len(c) = 6 /\ c[1] \in SemverOperators /\ IsVersionAt(c, 2)

ComparatorTest(version, c) ==
    IF c = <<>> \/ c = <<"*">> THEN TRUE
    ELSE LET v == Triple(version)
             op == IF Len(c) = 6 THEN c[1] ELSE "="
             t == Triple(IF Len(c) = 6 THEN Tail(c) ELSE c)
         IN  CASE op = "=" -> v = t
               [] op = "^" -> ~TripleLess(v, t) /\ TripleLess(v, CaretCeiling(t))
               [] op = "~" -> ~TripleLess(v, t) /\ TripleLess(v, <<t[1], t[2] + 1, 0>>)
               [] op = ">=" -> ~TripleLess(v, t)
               [] op = "<=" -> ~TripleLess(t, v)
               [] op = ">" -> TripleLess(t, v)
               [] op = "<" -> TripleLess(v, t)

\* semver.satisfies(version, range, { loose: true }): false, not an
\* exception, when the range is not valid
SemverSatisfies(version, range) ==
    LET sets == [i \in 1..Len(SplitOn(range, "||")) |->
                    SplitOn(Trim(SplitOn(range, "||")[i]), " ")]
    IN  /\ \A i \in 1..Len(sets) : \A j \in 1..Len(sets[i]) : ValidComparator(sets[i][j])
        /\ \E i \in 1..Len(sets) : \A j \in 1..Len(sets[i]) : ComparatorTest(version, sets[i][j])

satisfies(version, range) == SemverSatisfies(version, cleanRange(range))

PeerIssue(packageName, dependency, peerDep, type, detail) ==
    [packageName |-> packageName, dependency |-> dependency, peerDep |-> peerDep,
     type |-> type, detail |-> detail]

NoRootPkg == [name |-> NoName]

\* packages.find(p => p.location === rootDir)
FindRootPkg(pkgs, dir) ==
    IF \E i \in 1..Len(pkgs) : pkgs[i].location = dir
    THEN pkgs[CHOOSE i \in 1..Len(pkgs) :
                  pkgs[i].location = dir /\ \A j \in 1..(i - 1) : pkgs[j].location # dir]
    ELSE NoRootPkg

AvailableDepsNone(rootPkg) == EmptyMap

\* availableDeps: the root's runtime entries, then its dev entries for the
\* names not yet present
AvailableDeps(rootPkg) ==
    IF rootPkg = NoRootPkg THEN EmptyMap
    ELSE Spread(rootPkg.devDependencies, rootPkg.dependencies)

\* { ...pkg.dependencies, ...pkg.devDependencies }
PeerAllDeps(p) == Spread(p.dependencies, p.devDependencies)

\* allDeps[peerName] || availableDeps.get(peerName); <<>> stands for a falsy
\* result (undefined or the empty string)
ProvidedVersion(p, availableDeps, peerName) ==
    IF TruthyAt(PeerAllDeps(p), peerName) THEN PeerAllDeps(p)[peerName]
    ELSE IF peerName \in DOMAIN availableDeps THEN availableDeps[peerName]
    ELSE <<>>

\* The body of the loop over the entries of peerDeps
PeerEntryIssues(p, availableDeps, peerName) ==
    LET peerRange == p.peerDependencies[peerName]
        providedVersion == ProvidedVersion(p, availableDeps, peerName)
    IN  IF IsLocalRange(peerRange) THEN <<>>
        ELSE IF ~Truthy(providedVersion)
        THEN <<PeerIssue(p.name, p.name, peerName, "missing-peer", <<peerRange>>)>>
        ELSE IF /\ cleanVersion(providedVersion) # NoVersion
                /\ ~satisfies(cleanVersion(providedVersion), peerRange)
        THEN <<PeerIssue(p.name, p.name, peerName, "incompatible-peer",
                         <<peerRange, providedVersion>>)>>
        ELSE <<>>

RECURSIVE PeerPackageIssues(_, _, _)
PeerPackageIssues(p, availableDeps, peerNames) ==
    IF peerNames = <<>> THEN <<>>
    ELSE PeerEntryIssues(p, availableDeps, Head(peerNames))
         \o PeerPackageIssues(p, availableDeps, Tail(peerNames))

RECURSIVE PeerCheckFrom(_, _)
PeerCheckFrom(pkgs, availableDeps) ==
    IF pkgs = <<>> THEN <<>>
    ELSE PeerPackageIssues(Head(pkgs), availableDeps, Keys(Head(pkgs).peerDependencies))
         \o PeerCheckFrom(Tail(pkgs), availableDeps)

PeerCheck(pkgs, rootPkg) == PeerCheckFrom(pkgs, AvailableDeps(rootPkg))

----------------------------------------------------------------------------
(* Specification SpecPeer: index.ts looks up the root and calls check *)

\* Number of packages of the graph handed to PeerChecker.check
MaxPeerPackages == 2

PeerNames == <<pkgRoot, pkgA, pkgB>>
PeerLocations == <<"/repo", "/repo/packages/a", "/repo/packages/b">>

\* Each manifest may declare react as a runtime, dev and peer dependency
PeerPackagesAt(i) ==
    {PackageInfo(PeerNames[i], PeerLocations[i], d, v, pe, EmptyMap) :
        d \in {EmptyMap} \cup OneEntryMaps(react, {r17, r18, rEmpty}),
        v \in {EmptyMap} \cup OneEntryMaps(react, {r17}),
        pe \in {EmptyMap} \cup OneEntryMaps(react, {r18, rOr17Or18, rLatest, rWorkspace})}

PeerGraphs == GraphsOf(PeerPackagesAt, MaxPeerPackages)

\* The workspace root is the directory of a package of the graph, or of none
PeerRootDirs == {RootLocation, "/elsewhere"}

InitPeer ==
    /\ packages \in PeerGraphs
    /\ rootDir \in PeerRootDirs
    /\ usedImports = EmptyMap
    /\ policy = "root-shared"
    /\ prodImportsByPackage = EmptyMap
    /\ devImportsByPackage = EmptyMap
    /\ issues = <<>>
    /\ AnIdle
    /\ IpIdle
    /\ OtherIdle
    /\ pc = "peer"

CheckPeers ==
    /\ pc = "peer"
    /\ issues' = PeerCheck(packages, FindRootPkg(packages, rootDir))
    /\ pc' = "done"
    /\ UNCHANGED <<packages, rootDir, usedImports, prodImportsByPackage,
                   devImportsByPackage, policy, anVars, prVars, fsVars, runVars, ipVars>>

NextPeer == CheckPeers

SpecPeer == InitPeer /\ [][NextPeer]_vars

----------------------------------------------------------------------------
(* Claims about PeerChecker.check, checked under SpecPeer *)

PeerIssueCount(a, peerName, type) ==
    Cardinality({i \in 1..Len(issues) :
        /\ issues[i].packageName = a
        /\ issues[i].peerDep = peerName
        /\ issues[i].type = type})

\* The ranges p's runtime and dev maps declare for dep
OwnProviders(p, dep) ==
    {p[k][dep] : k \in {m \in {"dependencies", "devDependencies"} : dep \in DOMAIN p[m]}}

\* The ranges the runtime and dev maps of the package at rootDir declare
RootProviders(dep) ==
    UNION {OwnProviders(p, dep) : p \in {q \in PackageSet : q.location = rootDir}}

\* Where the provider is looked for: the package's own maps first, the
\* root's when the package's own maps do not name the peer
ProviderCandidates(p, dep) ==
    IF OwnProviders(p, dep) # {} THEN OwnProviders(p, dep) ELSE RootProviders(dep)

\* C7: for each peer entry of a package whose range is not workspace:/file:,
\* the provider is looked for in the package's own maps first and then in
\* the root's; when neither names the peer, check emits exactly one
\* missing-peer issue, and when the provider found has a normalized version
\* that does not satisfy the peer range, exactly one incompatible-peer issue.
C7_PeerIssuePerUnsatisfiedEntry ==
    pc = "done" =>
        \A p \in PackageSet : \A peerName \in DOMAIN p.peerDependencies :
            LET peerRange == p.peerDependencies[peerName]
                found == ProviderCandidates(p, peerName)
            IN  ~UsesLocalProtocol(peerRange) =>
                  /\ found = {} =>
                        /\ PeerIssueCount(p.name, peerName, "missing-peer") = 1
                        /\ PeerIssueCount(p.name, peerName, "incompatible-peer") = 0
                  /\ (/\ found # {}
                      /\ \A provided \in found :
                            /\ cleanVersion(provided) # NoVersion
                            /\ ~satisfies(cleanVersion(provided), peerRange)) =>
                        /\ PeerIssueCount(p.name, peerName, "incompatible-peer") = 1
                        /\ PeerIssueCount(p.name, peerName, "missing-peer") = 0

\* C7 witness: a package with peer react ^18.0.0 and no own declaration of
\* react, the root declaring react ^17.0.0, and check has returned exactly
\* one incompatible-peer issue for it and no missing-peer issue.
C7_Witness ==
    /\ pc = "done"
    /\ \E p \in PackageSet :
          /\ p.location # rootDir
          /\ react \in DOMAIN p.peerDependencies
          /\ p.peerDependencies[react] = r18
          /\ OwnProviders(p, react) = {}
          /\ RootProviders(react) = {r17}
          /\ PeerIssueCount(p.name, react, "incompatible-peer") = 1
          /\ PeerIssueCount(p.name, react, "missing-peer") = 0

----------------------------------------------------------------------------
(* PeerChecker.checkInstalledPeers and resolveInstalledManifest *)

\* The cap on resolved manifests and the deadline of the traversal, scaled
\* down from the 2000 manifests and 8000 ms of the source so that both are
\* reached on the graphs of the model
maxResolvedManifests == 2
timeoutMs == 2

\* Clock readings beyond the deadline are all alike
MaxElapsed == timeoutMs + 1

BudgetExceededLate(now, count) == now > timeoutMs \/ count > maxResolvedManifests

\* Date.now() - startedAt > timeoutMs || resolvedCount >= maxResolvedManifests
BudgetExceeded(now, count) == now > timeoutMs \/ count >= maxResolvedManifests

\* What a manifest file may hold: a JSON object (with or without a
\* peerDependencies field), the JSON text null, or text that is not JSON
ManifestText(peers) == [json |-> "object", peerDependencies |-> peers]
BareManifestText == [json |-> "object"]
NullText == [json |-> "null"]
GarbageText == [json |-> "garbage"]

\* JSON.parse throws on text that is not JSON
JsonParseThrows(content) == content.json = "garbage"

\* if (cached) / if (!manifest): an object is truthy, null is not
TruthyManifest(m) == m.json = "object"

NoManifest == NullText

NotFound == "MODULE_NOT_FOUND"

\* pkgRequire.resolve(`${depName}/package.json`), createRequire being scoped
\* to the package's location; it throws when the module is not found
ResolveThrows(location, depName) == installed[location][depName] = NotFound

resolveInstalledManifestUncached(location, depName, cache, reads) ==
    IF ResolveThrows(location, depName)
    THEN [manifest |-> NoManifest, cache |-> cache, reads |-> reads]
    ELSE LET resolvedPath == installed[location][depName]
             content == disk[resolvedPath]
         IN  [manifest |-> IF JsonParseThrows(content) THEN NoManifest ELSE content,
              cache |-> cache,
              reads |-> [reads EXCEPT ![resolvedPath] = @ + 1]]

\* resolveInstalledManifest with a cache hit answered as a failure
resolveInstalledManifestCacheMiss(location, depName, cache, reads) ==
    IF ResolveThrows(location, depName)
    THEN [manifest |-> NoManifest, cache |-> cache, reads |-> reads]
    ELSE LET resolvedPath == installed[location][depName]
         IN  IF resolvedPath \in DOMAIN cache /\ TruthyManifest(cache[resolvedPath])
             THEN [manifest |-> NoManifest, cache |-> cache, reads |-> reads]
             ELSE LET content == disk[resolvedPath]
                      readsAfter == [reads EXCEPT ![resolvedPath] = @ + 1]
                  IN  IF JsonParseThrows(content)
                      THEN [manifest |-> NoManifest, cache |-> cache, reads |-> readsAfter]
                      ELSE [manifest |-> content,
                            cache |-> Spread(cache, [k \in {resolvedPath} |-> content]),
                            reads |-> readsAfter]

\* resolveInstalledManifest: the manifest returned, and the cache and the
\* per-path count of readFileSync calls after the call
resolveInstalledManifest(location, depName, cache, reads) ==
    IF ResolveThrows(location, depName)
    THEN [manifest |-> NoManifest, cache |-> cache, reads |-> reads]
    ELSE LET resolvedPath == installed[location][depName]
         IN  IF resolvedPath \in DOMAIN cache /\ TruthyManifest(cache[resolvedPath])
             THEN [manifest |-> cache[resolvedPath], cache |-> cache, reads |-> reads]
             ELSE LET content == disk[resolvedPath]
                      readsAfter == [reads EXCEPT ![resolvedPath] = @ + 1]
                  IN  IF JsonParseThrows(content)
                      THEN [manifest |-> NoManifest, cache |-> cache, reads |-> readsAfter]
                      ELSE [manifest |-> content,
                            cache |-> Spread(cache, [k \in {resolvedPath} |-> content]),
                            reads |-> readsAfter]

\* localProvided and rootProvided
InstalledProvided(p) ==
    IF p = NoRootPkg THEN EmptyMap
    ELSE Spread(Spread(Spread(p.dependencies, p.devDependencies), p.peerDependencies),
                p.optionalDependencies)

\* Object.keys(declaredDeps)
DeclaredDepNames(p) ==
    Keys(Spread(Spread(p.dependencies, p.devDependencies), p.optionalDependencies))

\* manifest.peerDependencies ?? {}
ManifestPeerDeps(manifest) ==
    IF "peerDependencies" \in DOMAIN manifest THEN manifest.peerDependencies
    ELSE EmptyMap

\* localProvided[peerName] ?? rootProvided[peerName]; <<>> also stands for
\* undefined
InstalledProvidedVersion(p, rootPkg, peerName) ==
    IF peerName \in DOMAIN InstalledProvided(p) THEN InstalledProvided(p)[peerName]
    ELSE IF peerName \in DOMAIN InstalledProvided(rootPkg)
    THEN InstalledProvided(rootPkg)[peerName]
    ELSE <<>>

InstalledPeerEntryIssues(p, rootPkg, depName, peerDeps, peerName) ==
    LET peerRange == peerDeps[peerName]
        providedVersion == InstalledProvidedVersion(p, rootPkg, peerName)
    IN  IF IsLocalRange(peerRange) THEN <<>>
        ELSE IF ~Truthy(providedVersion)
        THEN <<PeerIssue(p.name, depName, peerName, "installed-missing-peer", <<peerRange>>)>>
        ELSE IF /\ cleanVersion(providedVersion) # NoVersion
                /\ ~satisfies(cleanVersion(providedVersion), peerRange)
        THEN <<PeerIssue(p.name, depName, peerName, "installed-incompatible-peer",
                         <<peerRange, providedVersion>>)>>
        ELSE <<>>

RECURSIVE InstalledPeerIssues(_, _, _, _, _)
InstalledPeerIssues(p, rootPkg, depName, peerDeps, peerNames) ==
    IF peerNames = <<>> THEN <<>>
    ELSE InstalledPeerEntryIssues(p, rootPkg, depName, peerDeps, Head(peerNames))
         \o InstalledPeerIssues(p, rootPkg, depName, peerDeps, Tail(peerNames))

----------------------------------------------------------------------------
(* Specification SpecInstalled: one call of checkInstalledPeers on a fresh
   PeerChecker, one action per loop head and per resolution step *)

\* Number of packages of the graph handed to checkInstalledPeers
MaxInstalledPackages == 2

lodashManifestPath == "/repo/node_modules/lodash/package.json"
reactManifestPath == "/repo/node_modules/react/package.json"

\* Each manifest may declare lodash at runtime and react as a dev dependency
IpPackagesAt(i) ==
    {PackageInfo(PeerNames[i], PeerLocations[i], d, v, EmptyMap, EmptyMap) :
        d \in {EmptyMap} \cup OneEntryMaps(lodash, {r1}),
        v \in {EmptyMap} \cup OneEntryMaps(react, {r17, r18})}

IpGraphs == GraphsOf(IpPackagesAt, MaxInstalledPackages)

\* The dependencies are hoisted: from every package a name resolves to the
\* same manifest path, or is not found
IpResolutions ==
    [{lodash, react} -> {NotFound}]
    \cup {[dep \in {lodash, react} |->
              IF dep = lodash THEN lodashManifestPath ELSE reactManifestPath]}
    \cup {[dep \in {lodash, react} |->
              IF dep = lodash THEN lodashManifestPath ELSE NotFound]}

IpTrees == {[location \in Range(PeerLocations) |-> r] : r \in IpResolutions}

\* lodash's installed manifest asks for the peer react ^18.0.0, or is not a
\* manifest; react's has no peerDependencies field, or is not JSON
IpDisks ==
    {[path \in {lodashManifestPath, reactManifestPath} |->
         IF path = lodashManifestPath THEN l ELSE r] :
        l \in {ManifestText([k \in {react} |-> r18]), NullText, GarbageText},
        r \in {BareManifestText, GarbageText}}

InitInstalled ==
    /\ packages \in IpGraphs
    /\ rootDir = RootLocation
    /\ usedImports = EmptyMap
    /\ policy = "root-shared"
    /\ prodImportsByPackage = EmptyMap
    /\ devImportsByPackage = EmptyMap
    /\ issues = <<>>
    /\ installed \in IpTrees
    /\ disk \in IpDisks
    /\ manifestCache = EmptyMap
    /\ diskReads = [path \in {lodashManifestPath, reactManifestPath} |-> 0]
    /\ pkgIdx = 1
    /\ depIdx = 0
    /\ resolvedCount = 0
    /\ elapsed = 0
    /\ AnIdle
    /\ OtherIdle
    /\ pc = "ip_outer"

\* The head of the loop over the packages: the loop ends, or the budget is
\* tested with a fresh reading of the clock, which never runs backwards
InstalledOuterCheck ==
    /\ pc = "ip_outer"
    /\ IF pkgIdx > Len(packages)
       THEN /\ pc' = "done"
            /\ UNCHANGED <<elapsed, depIdx>>
       ELSE \E now \in elapsed..MaxElapsed :
               /\ elapsed' = now
               /\ IF BudgetExceeded(now, resolvedCount)
                  THEN pc' = "done" /\ UNCHANGED depIdx
                  ELSE pc' = "ip_inner" /\ depIdx' = 1
    /\ UNCHANGED <<installed, disk, manifestCache, diskReads, pkgIdx, resolvedCount,
                   wsVars, anVars, prVars, fsVars, runVars>>

\* The head of the loop over the declared dependencies of the package
InstalledInnerCheck ==
    /\ pc = "ip_inner"
    /\ IF depIdx > Len(DeclaredDepNames(packages[pkgIdx]))
       THEN /\ pc' = "ip_outer"
            /\ pkgIdx' = pkgIdx + 1
            /\ UNCHANGED elapsed
       ELSE \E now \in elapsed..MaxElapsed :
               /\ elapsed' = now
               /\ IF BudgetExceeded(now, resolvedCount)
                  THEN pc' = "ip_outer" /\ pkgIdx' = pkgIdx + 1
                  ELSE pc' = "ip_resolve" /\ UNCHANGED pkgIdx
    /\ UNCHANGED <<installed, disk, manifestCache, diskReads, depIdx, resolvedCount,
                   wsVars, anVars, prVars, fsVars, runVars>>

\* One resolution step: resolveInstalledManifest, and for a manifest the
\* count and the validation of its peers
InstalledResolve ==
    /\ pc = "ip_resolve"
    /\ LET p == packages[pkgIdx]
           depName == DeclaredDepNames(p)[depIdx]
           resolved == resolveInstalledManifest(p.location, depName, manifestCache, diskReads)
           peerDeps == ManifestPeerDeps(resolved.manifest)
       IN  /\ manifestCache' = resolved.cache
           /\ diskReads' = resolved.reads
           /\ IF ~TruthyManifest(resolved.manifest)
              THEN UNCHANGED <<resolvedCount, issues>>
              ELSE /\ resolvedCount' = resolvedCount + 1
                   /\ issues' = issues \o InstalledPeerIssues(
                                    p, FindRootPkg(packages, rootDir), depName, peerDeps,
                                    Keys(peerDeps))
    /\ depIdx' = depIdx + 1
    /\ pc' = "ip_inner"
    /\ UNCHANGED <<installed, disk, pkgIdx, elapsed, packages, rootDir, usedImports,
                   prodImportsByPackage, devImportsByPackage, policy, anVars, prVars, fsVars, runVars>>

NextInstalled == InstalledOuterCheck \/ InstalledInnerCheck \/ InstalledResolve

SpecInstalled == InitInstalled /\ [][NextInstalled]_vars

----------------------------------------------------------------------------
(* Claims about checkInstalledPeers, checked under SpecInstalled *)

\* The cap has been reached, or the deadline has been seen to have passed
BudgetSpent == resolvedCount >= maxResolvedManifests \/ elapsed > timeoutMs

\* Before every resolution step: a resolution step is only taken when the
\* test that precedes it found the resolved count below the cap and the
\* deadline not passed.
C8_BudgetTestedBeforeResolution ==
    pc = "ip_resolve" => ~BudgetSpent

\* Truncation: once the resolved count has reached the cap or the
\* deadline has passed, no manifest is resolved or read any more, the issues
\* stay as collected, and the only way on is towards the return.
C8_NothingResolvedOnceBudgetSpent ==
    [][BudgetSpent =>
          /\ resolvedCount' = resolvedCount
          /\ diskReads' = diskReads
          /\ manifestCache' = manifestCache
          /\ issues' = issues
          /\ pc' \in {"ip_outer", "done"}]_vars

\* C8: the cap and the deadline are tested before every resolution step, and
\* once the resolved count has reached the cap or the deadline has passed no
\* further manifest is resolved for any remaining dependency or package; the
\* call goes on to return the issues collected so far.
C8_BudgetBoundsResolution ==
    /\ []C8_BudgetTestedBeforeResolution
    /\ C8_NothingResolvedOnceBudgetSpent

\* C8 witness: the call has returned with the cap reached while a declared
\* dependency that resolves was left unresolved.
C8_Witness ==
    /\ pc = "done"
    /\ resolvedCount = maxResolvedManifests
    /\ pkgIdx <= Len(packages)
    /\ \E i \in pkgIdx..Len(packages) : \E dep \in Range(DeclaredDepNames(packages[i])) :
          ~ResolveThrows(packages[i].location, dep)

----------------------------------------------------------------------------
(* OwnershipChecker (ownership-checker.ts) *)

OwnershipIssue(dependency, type, usage, pkgNames) ==
    [dependency |-> dependency, type |-> type, usage |-> usage, packages |-> pkgNames]

\* The order of the names of the model, which the code units of the strings
\* (Array.prototype.sort) and localeCompare agree on
NameRank(name) ==
    CASE name = pkgA -> 1
      [] name = pkgB -> 2
      [] name = WsNames[4] -> 3
      [] name = WsNames[5] -> 4
      [] name = typesNode -> 5
      [] name = lodash -> 6
      [] name = react -> 7
      [] name = pkgRoot -> 8

\* A stable sort of seq by the rank key[x] of its elements
RECURSIVE InsertSorted(_, _, _)
InsertSorted(x, sorted, key) ==
    IF sorted = <<>> THEN <<x>>
    ELSE IF key[x] < key[Head(sorted)] THEN <<x>> \o sorted
    ELSE <<Head(sorted)>> \o InsertSorted(x, Tail(sorted), key)

RECURSIVE SortByKey(_, _)
SortByKey(seq, key) ==
    IF seq = <<>> THEN <<>>
    ELSE InsertSorted(seq[Len(seq)], SortByKey(SubSeq(seq, 1, Len(seq) - 1), key), key)

\* [...consumerPackages].sort()
SortNames(names) == SortByKey(names, [n \in Range(names) |-> NameRank(n)])

\* issues.sort((a, b) => a.dependency.localeCompare(b.dependency))
SortIssues(found) == SortByKey(found, [i \in Range(found) |-> NameRank(i.dependency)])

\* The Set of the keys of the four maps; only has() is used on it
DeclaredSet(p) ==
    (DOMAIN p.dependencies) \cup (DOMAIN p.devDependencies)
    \cup (DOMAIN p.peerDependencies) \cup (DOMAIN p.optionalDependencies)

\* declarationsByPackage, keyed by package name
RECURSIVE DeclarationsByPackage(_)
DeclarationsByPackage(pkgs) ==
    IF pkgs = <<>> THEN EmptyMap
    ELSE Spread(DeclarationsByPackage(SubSeq(pkgs, 1, Len(pkgs) - 1)),
                [k \in {pkgs[Len(pkgs)].name} |-> DeclaredSet(pkgs[Len(pkgs)])])

\* importsByPackage.get(pkg.name) || new Set()
ImportsOf(importsByPackage, name) ==
    IF name \in DOMAIN importsByPackage THEN importsByPackage[name] ELSE <<>>

\* depUsage.get(dep).prod.add(name) or .dev.add(name), creating the entry as
\* needed; depUsage is a sequence of entries in insertion order
RECURSIVE RecordUsage(_, _, _, _)
RecordUsage(depUsage, deps, kind, name) ==
    IF deps = <<>> THEN depUsage
    ELSE LET dep == Head(deps)
             present == \E i \in 1..Len(depUsage) : depUsage[i].dependency = dep
             withDep == IF present THEN depUsage
                        ELSE Append(depUsage, [dependency |-> dep, prod |-> <<>>, dev |-> <<>>])
             updated == [i \in 1..Len(withDep) |->
                            IF withDep[i].dependency = dep
                            THEN [withDep[i] EXCEPT ![kind] = SetAdd(@, name)]
                            ELSE withDep[i]]
         IN  RecordUsage(updated, Tail(deps), kind, name)

\* for (const pkg of workspacePackages)
RECURSIVE DepUsage(_, _, _, _)
DepUsage(depUsage, workspacePackages, prodByPackage, devByPackage) ==
    IF workspacePackages = <<>> THEN depUsage
    ELSE LET name == Head(workspacePackages).name
             withProd == RecordUsage(depUsage, ImportsOf(prodByPackage, name), "prod", name)
             withDev == RecordUsage(withProd, ImportsOf(devByPackage, name), "dev", name)
         IN  DepUsage(withDev, Tail(workspacePackages), prodByPackage, devByPackage)

RootDeclarations(pkgs, dir) ==
    IF FindRootPkg(pkgs, dir) = NoRootPkg THEN {}
    ELSE DeclarationsByPackage(pkgs)[FindRootPkg(pkgs, dir).name]

UsageKind(usage) ==
    IF usage.prod # <<>> /\ usage.dev # <<>> THEN "mixed"
    ELSE IF usage.prod # <<>> THEN "prod"
    ELSE "dev"

IsRootSharedCandidateAnywhere(consumers, rootDeclarations, dependency) ==
    Len(consumers) >= 2

\* consumers.length >= 2 && !rootDeclarations.has(dependency)
IsRootSharedCandidate(consumers, rootDeclarations, dependency) ==
    Len(consumers) >= 2 /\ dependency \notin rootDeclarations

MissingLocalDeclarationAll(consumers, declarations, dependency) == consumers

\* consumers.filter(pkgName => !declared || !declared.has(dependency))
MissingLocalDeclaration(consumers, declarations, dependency) ==
    SelectSeq(consumers, LAMBDA pkgName :
        pkgName \notin DOMAIN declarations
        \/ dependency \notin declarations[pkgName])

\* The body of the loop over depUsage.entries()
UsageIssues(usage, pkgs, dir, pol) ==
    LET consumers == SortNames(AddAll(usage.prod, usage.dev))
        rootDeclarations == RootDeclarations(pkgs, dir)
        declarations == DeclarationsByPackage(pkgs)
        missingLocalDeclaration ==
            MissingLocalDeclaration(consumers, declarations, usage.dependency)
    IN  IF consumers = <<>> THEN <<>>
        ELSE IF pol = "root-shared"
        THEN IF IsRootSharedCandidate(consumers, rootDeclarations, usage.dependency)
             THEN <<OwnershipIssue(usage.dependency, "root-shared-candidate",
                                   UsageKind(usage), consumers)>>
             ELSE <<>>
        ELSE IF usage.dependency \in rootDeclarations /\ missingLocalDeclaration # <<>>
        THEN <<OwnershipIssue(usage.dependency, "workspace-explicit-candidate",
                              UsageKind(usage), missingLocalDeclaration)>>
        ELSE <<>>

RECURSIVE OwnershipIssuesFrom(_, _, _, _)
OwnershipIssuesFrom(depUsage, pkgs, dir, pol) ==
    IF depUsage = <<>> THEN <<>>
    ELSE UsageIssues(Head(depUsage), pkgs, dir, pol)
         \o OwnershipIssuesFrom(Tail(depUsage), pkgs, dir, pol)

OwnershipCheck(pkgs, dir, prodByPackage, devByPackage, pol) ==
    LET workspacePackages == SelectSeq(pkgs, LAMBDA q : q.location # dir)
        depUsage == DepUsage(<<>>, workspacePackages, prodByPackage, devByPackage)
    IN  SortIssues(OwnershipIssuesFrom(depUsage, pkgs, dir, pol))

----------------------------------------------------------------------------
(* Specification SpecOwnership: one call of OwnershipChecker.check *)

\* Number of packages of the graph handed to OwnershipChecker.check
MaxOwnershipPackages == 3

\* Each manifest declares lodash in one of its maps, lodash and react, or
\* nothing
OwPackagesAt(i) ==
    ({PackageInfo(WsNames[i], WsLocations[i], d, EmptyMap, EmptyMap, o) :
        d \in {EmptyMap} \cup OneEntryMaps(lodash, {r1}),
        o \in {EmptyMap} \cup OneEntryMaps(lodash, {rEmpty})}
     \ {PackageInfo(WsNames[i], WsLocations[i], [k \in {lodash} |-> r1], EmptyMap,
                    EmptyMap, [k \in {lodash} |-> rEmpty])})
    \cup {PackageInfo(WsNames[i], WsLocations[i], [k \in {lodash} |-> r1],
                      [k \in {react} |-> r1], EmptyMap, EmptyMap)}

OwGraphs == GraphsOf(OwPackagesAt, MaxOwnershipPackages)

\* What index.ts records for a package: nothing when it is skipped, else
\* its prod and its dev import sets
OwImports ==
    {[skipped |-> TRUE, prod |-> <<>>, dev |-> <<>>],
     [skipped |-> FALSE, prod |-> <<lodash>>, dev |-> <<>>],
     [skipped |-> FALSE, prod |-> <<>>, dev |-> <<lodash>>],
     [skipped |-> FALSE, prod |-> <<react, lodash>>, dev |-> <<lodash>>]}

OwImportChoices(g) == [WorkspacePackageNames(g) -> OwImports]

ImportsByPackage(choice, kind) ==
    [name \in {n \in DOMAIN choice : ~choice[n].skipped} |-> choice[name][kind]]

InitOwnership ==
    /\ packages \in OwGraphs
    /\ rootDir \in {RootLocation, "/elsewhere"}
    /\ usedImports = EmptyMap
    /\ \E choice \in OwImportChoices(packages) :
          /\ prodImportsByPackage = ImportsByPackage(choice, "prod")
          /\ devImportsByPackage = ImportsByPackage(choice, "dev")
    /\ policy \in {"root-shared", "workspace-explicit"}
    /\ issues = <<>>
    /\ AnIdle
    /\ IpIdle
    /\ OtherIdle
    /\ pc = "ownership"

CheckOwnership ==
    /\ pc = "ownership"
    /\ issues' = OwnershipCheck(packages, rootDir, prodImportsByPackage,
                                devImportsByPackage, policy)
    /\ pc' = "done"
    /\ UNCHANGED <<packages, rootDir, usedImports, prodImportsByPackage,
                   devImportsByPackage, policy, anVars, prVars, fsVars, runVars, ipVars>>

NextOwnership == CheckOwnership

SpecOwnership == InitOwnership /\ [][NextOwnership]_vars

----------------------------------------------------------------------------
(* Claims about OwnershipChecker.check, checked under SpecOwnership *)

ImportedNames == {lodash, react, typesNode}

\* The non-root packages that import dep in prod or in dev files
Importers(dep) ==
    {p.name : p \in {q \in PackageSet :
        /\ q.location # rootDir
        /\ \/ /\ q.name \in DOMAIN prodImportsByPackage
              /\ dep \in Range(prodImportsByPackage[q.name])
           \/ /\ q.name \in DOMAIN devImportsByPackage
              /\ dep \in Range(devImportsByPackage[q.name])}}

\* The names declared in the maps of the root manifest, if there is one
RootDeclared == UNION {DeclaredNames(p) : p \in {q \in PackageSet : q.location = rootDir}}

RootSharedIssues(dep) ==
    {i \in 1..Len(issues) :
        issues[i].dependency = dep /\ issues[i].type = "root-shared-candidate"}

\* C10: under the root-shared policy, check emits a root-shared-candidate for
\* a dependency iff at least two distinct non-root packages import it (prod
\* or dev) and none of the root manifest's maps declares it; the record names
\* exactly those packages, each once, and there is one record per dependency.
C10_RootSharedCandidateIff ==
    (pc = "done" /\ policy = "root-shared") =>
        /\ \A dep \in ImportedNames :
              /\ RootSharedIssues(dep) # {}
                    <=> (Cardinality(Importers(dep)) >= 2 /\ dep \notin RootDeclared)
              /\ Cardinality(RootSharedIssues(dep)) <= 1
              /\ \A i \in RootSharedIssues(dep) :
                    /\ Range(issues[i].packages) = Importers(dep)
                    /\ Len(issues[i].packages) = Cardinality(Importers(dep))
        /\ \A i \in 1..Len(issues) :
              issues[i].type = "root-shared-candidate" /\ issues[i].dependency \in ImportedNames

\* C10 witness: lodash is imported by two non-root packages and absent from
\* the root manifest, which is in the graph, and check has returned a
\* root-shared-candidate for lodash naming both.
C10_Witness ==
    /\ pc = "done"
    /\ policy = "root-shared"
    /\ \E p \in PackageSet : p.location = rootDir
    /\ Importers(lodash) = {pkgA, pkgB}
    /\ lodash \notin RootDeclared
    /\ \E i \in RootSharedIssues(lodash) : issues[i].packages = <<pkgA, pkgB>>

\* The non-root packages that import dep and declare it in none of their
\* own maps
UndeclaringImporters(dep) ==
    {p.name : p \in {q \in PackageSet :
        q.name \in Importers(dep) /\ dep \notin DeclaredNames(q)}}

WorkspaceExplicitIssues(dep) ==
    {i \in 1..Len(issues) :
        issues[i].dependency = dep /\ issues[i].type = "workspace-explicit-candidate"}

\* The dependency names of the model in ascending order
DependencyOrder == <<typesNode, lodash, react>>

PositionIn(order, name) == CHOOSE k \in 1..Len(order) : order[k] = name

\* C11: under the workspace-explicit policy, check emits a
\* workspace-explicit-candidate for a dependency iff the root manifest
\* declares it and at least one non-root package imports it without declaring
\* it in its own maps; the record lists exactly those packages; no
\* root-shared-candidate is emitted; the issues are sorted by dependency name.
C11_WorkspaceExplicitCandidateIff ==
    (pc = "done" /\ policy = "workspace-explicit") =>
        /\ \A dep \in ImportedNames :
              /\ WorkspaceExplicitIssues(dep) # {}
                    <=> (dep \in RootDeclared /\ UndeclaringImporters(dep) # {})
              /\ Cardinality(WorkspaceExplicitIssues(dep)) <= 1
              /\ \A i \in WorkspaceExplicitIssues(dep) :
                    /\ Range(issues[i].packages) = UndeclaringImporters(dep)
                    /\ Len(issues[i].packages) = Cardinality(UndeclaringImporters(dep))
        /\ \A i \in 1..Len(issues) :
              /\ issues[i].type = "workspace-explicit-candidate"
              /\ issues[i].dependency \in ImportedNames
        /\ \A i, j \in 1..Len(issues) :
              i < j => PositionIn(DependencyOrder, issues[i].dependency)
                          < PositionIn(DependencyOrder, issues[j].dependency)

\* C11 witness: the root declares lodash and react, a non-root package
\* imports both without declaring them while another importer declares
\* lodash, and check has returned the two records, lodash first.
C11_Witness ==
    /\ pc = "done"
    /\ policy = "workspace-explicit"
    /\ Len(issues) = 2
    /\ issues[1].dependency = lodash
    /\ issues[2].dependency = react
    /\ \E n \in Importers(lodash) : n \notin UndeclaringImporters(lodash)
    /\ Range(issues[1].packages) = UndeclaringImporters(lodash)


----------------------------------------------------------------------------
(* The CLI action of index.ts: one run of the whole pipeline *)

\* for (const { file, isDev } of scanResults), from the first file on
RECURSIVE AnalyzeFiles(_, _, _)
AnalyzeFiles(files, i, acc) ==
    IF i > Len(files) THEN acc
    ELSE AnalyzeFiles(files, i + 1,
            [imports |-> ReduceFile(files[i], acc.imports),
             dyn |-> acc.dyn
                     \o CollectCandidates(i, files[i].parsed.dynamicCandidates)])

\* analyzer.analyze(pkg, ignorePatterns, config.ignoreDependencies), files
\* being what Scanner.scan returns under the ignore patterns
Analyze(p, files, ignore) ==
    LET acc == AnalyzeFiles(files, 1, [imports |-> [prod |-> <<>>, dev |-> <<>>],
                                       dyn |-> <<>>])
    IN  AnalysisResult(p, acc.imports.prod, acc.imports.dev, acc.dyn, ignore)

v2  == <<"2", ".", "0", ".", "0">>
v18 == <<"18", ".", "0", ".", "0">>

\* What "npm view <name> version" prints during the run; for a name without
\* an entry the command fails (a private package)
RegistryLatest == [n \in {lodash, react} |-> IF n = lodash THEN v2 ELSE v18]

VersionInfo(package, current, latest) ==
    [package |-> package, current |-> current, latest |-> latest]

\* The entries of checkVersions that reach execAsync: a workspace: or file:
\* range returns before it
LookedUp(dependencies) ==
    SelectSeq(Keys(dependencies), LAMBDA n : ~IsLocalRange(dependencies[n]))

\* The orders in which the concurrent lookups of one checkVersions call may
\* complete
CompletionOrders(names) ==
    {[i \in 1..Len(names) |-> names[perm[i]]] :
        perm \in {f \in [1..Len(names) -> 1..Len(names)] :
                     \A i, j \in 1..Len(names) : f[i] = f[j] => i = j}}

\* checkVersions: a result is pushed when its lookup completes; a failed
\* lookup is caught and pushes nothing
checkVersions(dependencies, completed) ==
    LET answered == SelectSeq(completed, LAMBDA n : n \in DOMAIN RegistryLatest)
    IN  [i \in 1..Len(answered) |->
            VersionInfo(answered[i], dependencies[answered[i]],
                        RegistryLatest[answered[i]])]

\* One more execution of "npm view" for each of the names
CountLookups(counts, names) ==
    [n \in DOMAIN counts |-> counts[n] + (IF n \in Range(names) THEN 1 ELSE 0)]

\* versionChecker.prefetch(names): every name not yet cached is looked up
\* once and what the registry said is kept for the run
Prefetch(names, cache, counts) ==
    LET fresh == SelectSeq(names, LAMBDA n : n \notin DOMAIN cache)
    IN  [cache |-> Spread(cache,
                     [n \in Range(fresh) |->
                         IF n \in DOMAIN RegistryLatest THEN RegistryLatest[n]
                         ELSE NoVersion]),
         counts |-> CountLookups(counts, fresh)]

\* semver.validRange(range, { loose: true }) is not null
validRange(range) ==
    LET sets == [i \in 1..Len(SplitOn(range, "||")) |->
                    SplitOn(Trim(SplitOn(range, "||")[i]), " ")]
    IN  \A i \in 1..Len(sets) : \A j \in 1..Len(sets[i]) : ValidComparator(sets[i][j])

\* outdated.filter(info => ...)
ActuallyOutdated(outdated) ==
    SelectSeq(outdated, LAMBDA info :
        IF ~validRange(info.current) THEN TRUE
        ELSE ~SemverSatisfies(info.latest, info.current))

\* What the run lists: a line of the report, or an entry of compactIssues
CompactIssue(package, type, dependency) ==
    [package |-> package, type |-> type, dependency |-> dependency]

\* package: '*'
AnyPackage == << <<"*">> >>

\* The source text of an argument, or "a -> b", in the place of a name
TextName(text) == << <<text>> >>

\* The settings the action derives from the options and the config
onlyExtras == options.onlyExtras
skipOutdated == options.outdated = FALSE
dynamicImportPolicyUnchecked == config.dynamicImportPolicy

dynamicImportPolicy ==
    IF config.dynamicImportPolicy \in {"warn", "strict"}
    THEN config.dynamicImportPolicy ELSE "off"
checkInstalledPeersAlways == TRUE

checkInstalledPeers == options.checkInstalledPeers \/ config.checkInstalledPeers
ownershipReport == options.ownershipReport \/ config.ownershipReport
ownershipPolicy ==
    IF config.ownershipPolicy = "workspace-explicit" THEN "workspace-explicit"
    ELSE "root-shared"
checkOutdated == ~skipOutdated /\ config.checkOutdated # FALSE

\* config.skipPackages && config.skipPackages.includes(pkg.name)
IsSkipped(p) == p.name \in config.skipPackages

\* { ...pkg.dependencies, ...pkg.devDependencies }
OutdatedAllDeps(p) == Spread(p.dependencies, p.devDependencies)


\* What the loop body finds for a package that is not skipped, the lookups
\* of its checkVersions call completing in the order completed
PackageOutdated(p, completed) ==
    IF checkOutdated /\ Keys(OutdatedAllDeps(p)) # <<>>
    THEN ActuallyOutdated(checkVersions(OutdatedAllDeps(p), completed))
    ELSE <<>>

\* The lines the loop body reports for the package, in order
PackageEntries(p, analysis, outdated) ==
    (IF onlyExtras THEN <<>>
     ELSE [i \in 1..Len(analysis.unused) |->
              CompactIssue(p.name, "unused", analysis.unused[i])]
          \o [i \in 1..Len(analysis.missing) |->
                 CompactIssue(p.name, "missing", analysis.missing[i])])
    \o [i \in 1..Len(analysis.wrongType) |->
           CompactIssue(p.name, "wrongType", analysis.wrongType[i].dependency)]
    \o (IF dynamicImportPolicy # "off"
        THEN [i \in 1..Len(analysis.dynamicCandidates) |->
                 CompactIssue(p.name, "dynamic",
                              TextName(analysis.dynamicCandidates[i].expression))]
        ELSE <<>>)
    \o [i \in 1..Len(outdated) |->
           CompactIssue(p.name, "outdated", outdated[i].package)]

\* let packageHasIssues at the end of the loop body
PackageHasIssues(analysis, outdated) ==
    \/ ~onlyExtras /\ (analysis.unused # <<>> \/ analysis.missing # <<>>)
    \/ analysis.wrongType # <<>>
    \/ dynamicImportPolicy = "strict" /\ analysis.dynamicCandidates # <<>>
    \/ outdated # <<>>

\* The counters after the loop body
PackageStats(st, analysis, outdated) ==
    [st EXCEPT
        !.packagesScanned = @ + 1,
        !.unusedCount = @ + (IF onlyExtras THEN 0 ELSE Len(analysis.unused)),
        !.missingCount = @ + (IF onlyExtras THEN 0 ELSE Len(analysis.missing)),
        !.wrongTypeCount = @ + Len(analysis.wrongType),
        !.dynamicCount = @ + (IF dynamicImportPolicy # "off"
                              THEN Len(analysis.dynamicCandidates) ELSE 0),
        !.outdatedCount = @ + Len(outdated)]

\* const dynamicIssueCount and const totalIssues
DynamicIssueCountAlways(st) == st.dynamicCount

dynamicIssueCount(st) == IF dynamicImportPolicy = "strict" THEN st.dynamicCount ELSE 0

\* totalIssues with the ownership issues added
totalIssuesWithOwnership(st) ==
    st.unusedCount + st.missingCount + st.wrongTypeCount + st.outdatedCount
    + st.mismatchCount + st.internalCount + st.peerCount + st.installedPeerCount
    + dynamicIssueCount(st) + st.ownershipCount

totalIssues(st) ==
    st.unusedCount + st.missingCount + st.wrongTypeCount + st.outdatedCount
    + st.mismatchCount + st.internalCount + st.peerCount + st.installedPeerCount
    + dynamicIssueCount(st)

\* The names the prefetch collects: the non-local entries of the runtime
\* and dev maps of the packages that are not skipped
RECURSIVE AllDependencies(_, _)
AllDependencies(pkgs, acc) ==
    IF pkgs = <<>> THEN acc
    ELSE AllDependencies(Tail(pkgs),
            IF IsSkipped(Head(pkgs)) THEN acc
            ELSE AddAll(acc, LookedUp(OutdatedAllDeps(Head(pkgs)))))

\* v.packages.forEach((pkgName) => packagesWithIssues.add(pkgName))
MismatchPackages(mismatches) ==
    UNION {Range(v.packages) :
              v \in UNION {Range(m.versions) : m \in Range(mismatches)}}


\* checkInstalledPeers as one call: the loop over the declared dependencies
\* of a package. st holds resolvedCount, the manifest cache, the reads of
\* the disk, the issues and the number of budget tests made; the clock
\* passes the deadline once patience tests have been made
RECURSIVE InstalledDepsFrom(_, _, _, _, _)
InstalledDepsFrom(p, rootPkg, names, st, patience) ==
    IF names = <<>> THEN st
    ELSE IF BudgetExceeded(IF st.tests >= patience THEN MaxElapsed ELSE 0, st.count)
    THEN [st EXCEPT !.tests = @ + 1]
    ELSE LET depName == Head(names)
             resolved == resolveInstalledManifest(p.location, depName, st.cache, st.reads)
             peerDeps == ManifestPeerDeps(resolved.manifest)
             found == TruthyManifest(resolved.manifest)
         IN  InstalledDepsFrom(p, rootPkg, Tail(names),
                [tests |-> st.tests + 1,
                 cache |-> resolved.cache,
                 reads |-> resolved.reads,
                 count |-> IF found THEN st.count + 1 ELSE st.count,
                 issues |-> IF found
                            THEN st.issues \o InstalledPeerIssues(p, rootPkg, depName,
                                                   peerDeps, Keys(peerDeps))
                            ELSE st.issues],
                patience)

\* The loop over the packages
RECURSIVE InstalledPackagesFrom(_, _, _, _)
InstalledPackagesFrom(pkgs, rootPkg, st, patience) ==
    IF pkgs = <<>> THEN st
    ELSE IF BudgetExceeded(IF st.tests >= patience THEN MaxElapsed ELSE 0, st.count)
    THEN st
    ELSE InstalledPackagesFrom(Tail(pkgs), rootPkg,
            InstalledDepsFrom(Head(pkgs), rootPkg, DeclaredDepNames(Head(pkgs)),
                              [st EXCEPT !.tests = @ + 1], patience),
            patience)

checkInstalledPeersCall(pkgs, rootPkg, cache, reads, patience) ==
    InstalledPackagesFrom(pkgs, rootPkg,
        [tests |-> 0, cache |-> cache, reads |-> reads, count |-> 0, issues |-> <<>>],
        patience)

\* The numbers of budget tests after which the deadline may pass; the last
\* one stands for a call that ends before its deadline
RECURSIVE CountDeclared(_)
CountDeclared(pkgs) ==
    IF pkgs = <<>> THEN 0
    ELSE Len(DeclaredDepNames(Head(pkgs))) + 1 + CountDeclared(Tail(pkgs))

Patiences(pkgs) == 0..CountDeclared(pkgs)

----------------------------------------------------------------------------
(* Specification SpecRun: one run of the CLI action over a workspace *)

\* Number of packages of the workspace, the root package included
MaxRunPackages == 2

ValueFile(imp, isDev) == [isDev |-> isDev, parsed |-> ParseResult(<<imp>>, <<>>, <<>>)]

DynamicFile ==
    [isDev |-> FALSE,
     parsed |-> ParseResult(<<>>, <<>>, <<[expression |-> "moduleName", line |-> 1]>>)]

\* Another package of the workspace than the i-th
OtherPackage(i) == IF i = 1 THEN pkgA ELSE pkgRoot

Workspace(i, deps, devDeps, peerDeps, files) ==
    [manifest |-> PackageInfo(PeerNames[i], PeerLocations[i], deps, devDeps, peerDeps,
                              EmptyMap),
     files |-> files]

\* The i-th package and its scanned files: lodash declared at the latest
\* major and imported; lodash declared and not imported; lodash imported, not declared, beside a dynamic
\* import; lodash a dev dependency imported by production code; react a
\* peer dependency no one provides; another package of the workspace at a
\* registry version; lodash and react both behind the registry
RunWorkspace(i) ==
    {Workspace(i, [k \in {lodash} |-> r2], EmptyMap, EmptyMap,
               <<ValueFile(lodash, FALSE)>>),
     Workspace(i, [k \in {lodash} |-> r1], EmptyMap, EmptyMap, <<>>),
     Workspace(i, EmptyMap, EmptyMap, EmptyMap, <<ValueFile(lodash, FALSE), DynamicFile>>),
     Workspace(i, EmptyMap, [k \in {lodash} |-> r2], EmptyMap, <<ValueFile(lodash, FALSE)>>),
     Workspace(i, EmptyMap, EmptyMap, [k \in {react} |-> r18], <<ValueFile(react, FALSE)>>),
     Workspace(i, [k \in {OtherPackage(i)} |-> rExact123], EmptyMap, EmptyMap,
               <<ValueFile(OtherPackage(i), FALSE)>>),
     Workspace(i, [k \in {lodash} |-> r1], [k \in {react} |-> r1], EmptyMap,
               <<ValueFile(lodash, FALSE), ValueFile(react, TRUE)>>)}

RunTrees == GraphsOf(RunWorkspace, MaxRunPackages)

\* The options and the config of a plain run
DefaultSettings ==
    [onlyExtras |-> FALSE, outdated |-> TRUE, flagInstalledPeers |-> FALSE,
     flagOwnership |-> FALSE, dynamicImportPolicy |-> "off",
     checkInstalledPeers |-> FALSE, ownershipReport |-> FALSE,
     ownershipPolicy |-> "root-shared", skipPackages |-> {}, checkOutdated |-> TRUE]

\* One option or one entry of the config file set to another value (the
\* ownership policy comes with the report it configures); "verbose" stands
\* for the values of dynamicImportPolicy the code does not know
SingleOverrides ==
    {DefaultSettings,
     [DefaultSettings EXCEPT !.onlyExtras = TRUE],
     [DefaultSettings EXCEPT !.outdated = FALSE],
     [DefaultSettings EXCEPT !.checkOutdated = FALSE],
     [DefaultSettings EXCEPT !.dynamicImportPolicy = "warn"],
     [DefaultSettings EXCEPT !.dynamicImportPolicy = "strict"],
     [DefaultSettings EXCEPT !.dynamicImportPolicy = "verbose"],
     [DefaultSettings EXCEPT !.flagInstalledPeers = TRUE],
     [DefaultSettings EXCEPT !.checkInstalledPeers = TRUE],
     [DefaultSettings EXCEPT !.flagOwnership = TRUE],
     [DefaultSettings EXCEPT !.ownershipReport = TRUE],
     [DefaultSettings EXCEPT !.ownershipReport = TRUE,
                             !.ownershipPolicy = "workspace-explicit"],
     [DefaultSettings EXCEPT !.skipPackages = {pkgA}]}

MergeSettings(a, b) ==
    [f \in DOMAIN DefaultSettings |-> IF b[f] # DefaultSettings[f] THEN b[f] ELSE a[f]]

\* The overrides the model combines with every other one
CombinedOverrides ==
    {DefaultSettings,
     [DefaultSettings EXCEPT !.onlyExtras = TRUE],
     [DefaultSettings EXCEPT !.dynamicImportPolicy = "strict"]}

\* The runs of the model differ from the plain run in at most two settings,
\* the second being --only-extras or the strict policy
RunSettings == {MergeSettings(a, b) : a \in SingleOverrides, b \in CombinedOverrides}

NoStats ==
    [packagesScanned |-> 0, packagesWithIssues |-> 0, unusedCount |-> 0,
     missingCount |-> 0, wrongTypeCount |-> 0, outdatedCount |-> 0,
     mismatchCount |-> 0, internalCount |-> 0, peerCount |-> 0, dynamicCount |-> 0,
     installedPeerCount |-> 0, ownershipCount |-> 0]

\* node_modules of the run: lodash and react are hoisted to the root, and
\* lodash's manifest asks for the peer react ^18.0.0
RunInstalled ==
    [location \in Range(PeerLocations) |->
        [dep \in Range(NameOrder) |->
            IF dep = lodash THEN lodashManifestPath
            ELSE IF dep = react THEN reactManifestPath
            ELSE NotFound]]

RunDisk ==
    [path \in {lodashManifestPath, reactManifestPath} |->
        IF path = lodashManifestPath THEN ManifestText([k \in {react} |-> r18])
        ELSE BareManifestText]

InitRun ==
    /\ \E t \in RunTrees :
          /\ packages = [i \in 1..Len(t) |-> t[i].manifest]
          /\ scans = [i \in 1..Len(t) |-> t[i].files]
    /\ \E s \in RunSettings :
          /\ options = [onlyExtras |-> s.onlyExtras, outdated |-> s.outdated,
                        checkInstalledPeers |-> s.flagInstalledPeers,
                        ownershipReport |-> s.flagOwnership]
          /\ config = [dynamicImportPolicy |-> s.dynamicImportPolicy,
                       checkInstalledPeers |-> s.checkInstalledPeers,
                       ownershipReport |-> s.ownershipReport,
                       ownershipPolicy |-> s.ownershipPolicy,
                       skipPackages |-> s.skipPackages,
                       checkOutdated |-> s.checkOutdated,
                       ignoreDependencies |-> {}]
    /\ rootDir = RootLocation
    /\ usedImports = EmptyMap
    /\ prodImportsByPackage = EmptyMap
    /\ devImportsByPackage = EmptyMap
    /\ policy = "root-shared"
    /\ issues = <<>>
    /\ installed = RunInstalled
    /\ disk = RunDisk
    /\ manifestCache = EmptyMap
    /\ diskReads = [path \in {lodashManifestPath, reactManifestPath} |-> 0]
    /\ pkgIdx = 0
    /\ depIdx = 0
    /\ resolvedCount = 0
    /\ elapsed = 0
    /\ lookups = [n \in Range(NameOrder) |-> 0]
    /\ versionCache = EmptyMap
    /\ stats = NoStats
    /\ packagesWithIssues = {}
    /\ reported = <<>>
    /\ rerunReported = <<>>
    /\ exitCode = 0
    /\ runIdx = 0
    /\ AnIdle
    /\ PrIdle
    /\ FsIdle
    /\ pc = "run_prefetch"


\* "Pre-fetch all package versions at once": index.ts:110-128
RunPrefetch ==
    /\ pc = "run_prefetch"
    /\ IF checkOutdated
       THEN LET fetched == Prefetch(AllDependencies(packages, <<>>), versionCache, lookups)
            IN  /\ versionCache' = fetched.cache
                /\ lookups' = fetched.counts
       ELSE UNCHANGED <<versionCache, lookups>>
    /\ pc' = "run_packages"
    /\ UNCHANGED <<options, config, scans, stats, packagesWithIssues, reported,
                   rerunReported, exitCode, runIdx, anVars, wsVars, ipVars, prVars,
                   fsVars>>

\* One iteration of "for (const pkg of packages)": index.ts:130-288.  The
\* lookups of checkVersions complete in some order; rerunReported is what a
\* second run of the same iteration reports, its lookups completing in an
\* order of their own
RunPackage ==
    /\ pc = "run_packages"
    /\ runIdx < Len(packages)
    /\ runIdx' = runIdx + 1
    /\ LET p == packages[runIdx + 1]
           analysis == Analyze(p, scans[runIdx + 1], config.ignoreDependencies)
           names == IF checkOutdated THEN LookedUp(OutdatedAllDeps(p)) ELSE <<>>
       IN  IF IsSkipped(p)
           THEN UNCHANGED <<usedImports, prodImportsByPackage, devImportsByPackage,
                            lookups, stats, packagesWithIssues, reported, rerunReported>>
           ELSE \E completed \in CompletionOrders(names),
                   recompleted \in CompletionOrders(names) :
                   LET outdated == PackageOutdated(p, completed)
                   IN  /\ usedImports' = Spread(usedImports,
                             [k \in {p.name} |->
                                 AllImports(analysis.prodImports, analysis.devImports)])
                       /\ prodImportsByPackage' = Spread(prodImportsByPackage,
                             [k \in {p.name} |-> analysis.prodImports])
                       /\ devImportsByPackage' = Spread(devImportsByPackage,
                             [k \in {p.name} |-> analysis.devImports])
                       /\ lookups' = CountLookups(lookups, names)
                       /\ stats' = PackageStats(stats, analysis, outdated)
                       /\ packagesWithIssues' =
                             IF PackageHasIssues(analysis, outdated)
                             THEN packagesWithIssues \cup {p.name}
                             ELSE packagesWithIssues
                       /\ reported' = reported \o PackageEntries(p, analysis, outdated)
                       /\ rerunReported' = rerunReported
                             \o PackageEntries(p, analysis, PackageOutdated(p, recompleted))
    /\ UNCHANGED <<options, config, scans, versionCache, exitCode, packages, rootDir,
                   policy, issues, pc, anVars, ipVars, prVars, fsVars>>

\* The mismatch, internal and peer checks over the whole graph:
\* index.ts:290-373
CrossEntries(mismatches, internalIssues, peerIssues) ==
    [i \in 1..Len(mismatches) |->
        CompactIssue(AnyPackage, "mismatch", mismatches[i].dependency)]
    \o [i \in 1..Len(internalIssues) |->
           CompactIssue(internalIssues[i].packageName, "internal",
                        internalIssues[i].dependency)]
    \o [i \in 1..Len(peerIssues) |->
           CompactIssue(peerIssues[i].packageName, "peer", peerIssues[i].peerDep)]

RunCrossChecks ==
    /\ pc = "run_packages"
    /\ runIdx = Len(packages)
    /\ LET mismatches == ConsistencyCheck(packages)
           internalIssues == InternalCheck(packages, usedImports)
           peerIssues == PeerCheck(packages, FindRootPkg(packages, rootDir))
           entries == CrossEntries(mismatches, internalIssues, peerIssues)
       IN  /\ stats' = [stats EXCEPT !.mismatchCount = Len(mismatches),
                                     !.internalCount = Len(internalIssues),
                                     !.peerCount = Len(peerIssues)]
           /\ packagesWithIssues' = packagesWithIssues
                 \cup {internalIssues[i].packageName : i \in 1..Len(internalIssues)}
                 \cup {peerIssues[i].packageName : i \in 1..Len(peerIssues)}
           /\ reported' = reported \o entries
           /\ rerunReported' = rerunReported \o entries
    /\ pc' = "run_installed"
    /\ UNCHANGED <<options, config, scans, lookups, versionCache, exitCode, runIdx,
                   anVars, wsVars, ipVars, prVars, fsVars>>

\* if (checkInstalledPeers): index.ts:375-402.  Both runs are given the same
\* time budget
RunInstalledPeers ==
    /\ pc = "run_installed"
    /\ IF checkInstalledPeers
       THEN \E patience \in Patiences(packages) :
               LET call == checkInstalledPeersCall(packages,
                               FindRootPkg(packages, rootDir), manifestCache,
                               diskReads, patience)
                   entries == [i \in 1..Len(call.issues) |->
                                  CompactIssue(call.issues[i].packageName,
                                      "installed-peer",
                                      call.issues[i].dependency \o TextName("->")
                                          \o call.issues[i].peerDep)]
               IN  /\ manifestCache' = call.cache
                   /\ diskReads' = call.reads
                   /\ stats' = [stats EXCEPT !.installedPeerCount = Len(call.issues)]
                   /\ packagesWithIssues' = packagesWithIssues
                         \cup {call.issues[i].packageName : i \in 1..Len(call.issues)}
                   /\ reported' = reported \o entries
                   /\ rerunReported' = rerunReported \o entries
       ELSE UNCHANGED <<manifestCache, diskReads, stats, packagesWithIssues, reported,
                        rerunReported>>
    /\ pc' = "run_finish"
    /\ UNCHANGED <<options, config, scans, lookups, versionCache, exitCode, runIdx,
                   installed, disk, pkgIdx, depIdx, resolvedCount, elapsed, anVars,
                   wsVars, prVars, fsVars>>

\* The ownership report, the packages of the mismatches, the totals and the
\* exit: index.ts:404-517
RunFinish ==
    /\ pc = "run_finish"
    /\ LET ownershipIssues ==
               IF ownershipReport
               THEN OwnershipCheck(packages, rootDir, prodImportsByPackage,
                                   devImportsByPackage, ownershipPolicy)
               ELSE <<>>
           entries == [i \in 1..Len(ownershipIssues) |->
                          CompactIssue(AnyPackage, "ownership",
                                       ownershipIssues[i].dependency)]
           withMismatches == packagesWithIssues
                                \cup MismatchPackages(ConsistencyCheck(packages))
           counted == [stats EXCEPT !.ownershipCount = Len(ownershipIssues),
                                    !.packagesWithIssues = Cardinality(withMismatches)]
       IN  /\ reported' = reported \o entries
           /\ rerunReported' = rerunReported \o entries
           /\ packagesWithIssues' = withMismatches
           /\ stats' = counted
           /\ exitCode' = IF totalIssues(counted) > 0 THEN 1 ELSE 0
    /\ pc' = "done"
    /\ UNCHANGED <<options, config, scans, lookups, versionCache, runIdx, anVars,
                   wsVars, ipVars, prVars, fsVars>>

NextRun == RunPrefetch \/ RunPackage \/ RunCrossChecks \/ RunInstalledPeers \/ RunFinish

SpecRun == InitRun /\ [][NextRun]_vars


----------------------------------------------------------------------------
(* Claims about the run, checked under SpecRun *)

RunDone == pc = "done"

ReportedOf(type) == SelectSeq(reported, LAMBDA e : e.type = type)

BlockingTypes ==
    {"unused", "missing", "wrongType", "outdated", "mismatch", "internal", "peer",
     "installed-peer"}

\* An issue of a blocking category: one of the eight types, or a dynamic
\* candidate when the policy is strict
IsBlocking(e) ==
    \/ e.type \in BlockingTypes
    \/ e.type = "dynamic" /\ config.dynamicImportPolicy = "strict"

\* C12: when the run ends, the exit status is 1 if some reported issue is of
\* a blocking category (dynamic candidates counting only under the strict
\* policy) and 0 otherwise; reported ownership issues and candidates under
\* another policy leave it at 0
C12_ExitNonZeroIffBlockingIssue ==
    RunDone =>
        (exitCode = 1 <=> \E i \in 1..Len(reported) : IsBlocking(reported[i]))

\* A run under the strict policy that reports dynamic candidates only, and
\* exits with 1
C12_Witness ==
    /\ RunDone
    /\ exitCode = 1
    /\ reported # <<>>
    /\ \A i \in 1..Len(reported) : reported[i].type = "dynamic"


\* The number of dynamic candidates in the files of the packages the run
\* does not skip
RECURSIVE CandidatesIn(_)
CandidatesIn(files) ==
    IF files = <<>> THEN 0
    ELSE Len(Head(files).parsed.dynamicCandidates) + CandidatesIn(Tail(files))

RECURSIVE CandidatesFrom(_)
CandidatesFrom(i) ==
    IF i > Len(packages) THEN 0
    ELSE (IF packages[i].name \in config.skipPackages THEN 0 ELSE CandidatesIn(scans[i]))
         + CandidatesFrom(i + 1)

\* The level the configured value stands for
PolicyLevel ==
    CASE config.dynamicImportPolicy = "warn" -> "warn"
      [] config.dynamicImportPolicy = "strict" -> "strict"
      [] OTHER -> "off"

\* The reported issues of the eight blocking types
OtherBlocking == SelectSeq(reported, LAMBDA e : e.type \in BlockingTypes)

\* Some reported issue other than a dynamic candidate names the package: an
\* issue of the package, or a mismatch of a dependency it declares
NamedByOtherIssue(p) ==
    \E i \in 1..Len(OtherBlocking) :
        \/ OtherBlocking[i].package = p.name
        \/ /\ OtherBlocking[i].type = "mismatch"
           /\ OtherBlocking[i].dependency \in DOMAIN ConsistencyAllDeps(p)

\* C13: at the end of a run, with the level off (any value other than warn
\* and strict) no dynamic candidate is reported or counted; with warn every
\* candidate of a scanned package is reported, the issue total is that of
\* the other issues and a package is marked only for another issue; with
\* strict every candidate is reported and the total also counts each one,
\* and a package with a candidate is marked
C13_DynamicPolicyLevels ==
    RunDone =>
        /\ PolicyLevel = "off" =>
              /\ ReportedOf("dynamic") = <<>>
              /\ stats.dynamicCount = 0
              /\ totalIssues(stats) = Len(OtherBlocking)
        /\ PolicyLevel = "warn" =>
              /\ Len(ReportedOf("dynamic")) = CandidatesFrom(1)
              /\ totalIssues(stats) = Len(OtherBlocking)
        /\ PolicyLevel # "strict" =>
              \A i \in 1..Len(packages) :
                  packages[i].name \in packagesWithIssues => NamedByOtherIssue(packages[i])
        /\ PolicyLevel = "strict" =>
              /\ Len(ReportedOf("dynamic")) = CandidatesFrom(1)
              /\ totalIssues(stats) = Len(OtherBlocking) + CandidatesFrom(1)
              /\ \A i \in 1..Len(packages) :
                    (packages[i].name \notin config.skipPackages /\ CandidatesIn(scans[i]) > 0)
                        => packages[i].name \in packagesWithIssues

\* A run under warn that reports a candidate and ends with no issue counted
\* and no package marked
C13_Witness ==
    /\ RunDone
    /\ PolicyLevel = "warn"
    /\ ReportedOf("dynamic") # <<>>
    /\ totalIssues(stats) = 0
    /\ packagesWithIssues = {}
    /\ exitCode = 0


InstalledPeersOptedIn == options.checkInstalledPeers \/ config.checkInstalledPeers = TRUE

OwnershipOptedIn == options.ownershipReport \/ config.ownershipReport = TRUE

\* What checkInstalledPeers would return for the graph within its budget
InstalledPeerFindings ==
    checkInstalledPeersCall(packages, FindRootPkg(packages, rootDir), EmptyMap,
        [path \in {lodashManifestPath, reactManifestPath} |-> 0],
        CountDeclared(packages)).issues

\* C14: in a run without the installed-peer option no installed manifest
\* is resolved or read and no installed-peer issue is reported or counted;
\* in a run without the ownership option no ownership issue is reported or
\* counted
C14_InstalledPeersAndOwnershipOptIn ==
    /\ ~InstalledPeersOptedIn =>
          /\ manifestCache = EmptyMap
          /\ \A path \in DOMAIN diskReads : diskReads[path] = 0
          /\ ReportedOf("installed-peer") = <<>>
          /\ stats.installedPeerCount = 0
    /\ ~OwnershipOptedIn =>
          /\ ReportedOf("ownership") = <<>>
          /\ stats.ownershipCount = 0

\* The end of a run with neither option over a graph in which the
\* installed-peer check and the ownership check would each find an issue
C14_Witness ==
    /\ RunDone
    /\ ~InstalledPeersOptedIn
    /\ ~OwnershipOptedIn
    /\ InstalledPeerFindings # <<>>
    /\ \E pol \in {"root-shared", "workspace-explicit"} :
          OwnershipCheck(packages, rootDir, prodImportsByPackage,
                         devImportsByPackage, pol) # <<>>
    /\ ReportedOf("installed-peer") = <<>>
    /\ ReportedOf("ownership") = <<>>


----------------------------------------------------------------------------
(* Parser.parse (parser.ts): the walk over the syntax tree of one file *)

\* A node of the tree: its kind, the text of a literal (a specifier), its
\* source text, and for a call the callee and the arguments, for an import
\* or export declaration the module specifier and the import clause
NoClause ==
    [present |-> FALSE, isTypeOnly |-> FALSE, name |-> FALSE,
     namedBindings |-> "none", elements |-> <<>>]

Node(kind, text, source, callee, arguments, moduleSpecifier, clause) ==
    [kind |-> kind, text |-> text, source |-> source, callee |-> callee,
     arguments |-> arguments, moduleSpecifier |-> moduleSpecifier, clause |-> clause]

StringLiteral(text, source) ==
    Node("StringLiteral", text, source, "", <<>>, <<>>, NoClause)

TemplateLiteral(text, source) ==
    Node("NoSubstitutionTemplateLiteral", text, source, "", <<>>, <<>>, NoClause)

Identifier(source) == Node("Identifier", <<>>, source, "", <<>>, <<>>, NoClause)

\* callee "import" is the import keyword; any other callee is an identifier
CallExpression(callee, arguments, source) ==
    Node("CallExpression", <<>>, source, callee, arguments, <<>>, NoClause)

ImportDeclaration(specifier, clause) ==
    Node("ImportDeclaration", <<>>, "import", "", <<>>, <<specifier>>, clause)

isStringLiteralAlways(node) == TRUE

isStringLiteral(node) ==
    node.kind \in {"StringLiteral", "NoSubstitutionTemplateLiteral"}

\* recordImport: an empty module name is dropped; the imports are Sets
recordImport(moduleName, isTypeOnly, acc) ==
    IF moduleName = <<>> THEN acc
    ELSE IF isTypeOnly
    THEN [acc EXCEPT !.typeOnlyImports = SetAdd(@, moduleName)]
    ELSE [acc EXCEPT !.valueImports = SetAdd(@, moduleName)]

\* dynamicCandidates.push({ expression: arg.getText(source), line }); line
\* is the 0-based line of the argument plus one
pushCandidate(arg, pos, acc) ==
    [acc EXCEPT !.dynamicCandidates =
        Append(@, [expression |-> arg.source, line |-> pos + 1])]

visitImportDeclarationNamedOnly(node, acc) ==
    LET moduleName == node.moduleSpecifier[1].text
        clause == node.clause
        allTypeOnly == /\ Len(clause.elements) > 0
                       /\ \A i \in 1..Len(clause.elements) : clause.elements[i]
    IN  IF clause.present /\ clause.isTypeOnly
        THEN recordImport(moduleName, TRUE, acc)
        ELSE IF clause.present /\ clause.namedBindings = "named"
        THEN (IF ~allTypeOnly
              THEN recordImport(moduleName, FALSE, acc)
              ELSE recordImport(moduleName, TRUE, acc))
        ELSE recordImport(moduleName, FALSE, acc)

\* The import declaration branch of visit
visitImportDeclaration(node, acc) ==
    LET moduleName == node.moduleSpecifier[1].text
        clause == node.clause
        allTypeOnly == /\ Len(clause.elements) > 0
                       /\ \A i \in 1..Len(clause.elements) : clause.elements[i]
    IN  IF clause.present /\ clause.isTypeOnly
        THEN recordImport(moduleName, TRUE, acc)
        ELSE IF clause.present /\ clause.namedBindings = "named"
        THEN (IF clause.name \/ ~allTypeOnly
              THEN recordImport(moduleName, FALSE, acc)
              ELSE recordImport(moduleName, TRUE, acc))
        ELSE recordImport(moduleName, FALSE, acc)

\* visit(node) for a node on the 0-based line pos, and ts.forEachChild
RECURSIVE visit(_, _, _)
RECURSIVE visitEach(_, _, _)
visit(node, pos, acc) ==
    IF /\ node.kind = "ImportDeclaration"
       /\ isStringLiteral(node.moduleSpecifier[1])
    THEN visitImportDeclaration(node, acc)
    ELSE IF /\ node.kind = "ExportDeclaration"
            /\ node.moduleSpecifier # <<>>
            /\ isStringLiteral(node.moduleSpecifier[1])
    THEN recordImport(node.moduleSpecifier[1].text, FALSE, acc)
    ELSE IF node.kind = "CallExpression" /\ node.callee = "import"
    THEN (IF node.arguments # <<>> /\ isStringLiteral(node.arguments[1])
          THEN recordImport(node.arguments[1].text, FALSE, acc)
          ELSE IF node.arguments # <<>>
          THEN pushCandidate(node.arguments[1], pos, acc)
          ELSE acc)
    ELSE LET required ==
                 IF /\ node.kind = "CallExpression"
                    /\ node.callee = "require"
                    /\ Len(node.arguments) = 1
                 THEN (IF isStringLiteral(node.arguments[1])
                       THEN recordImport(node.arguments[1].text, FALSE, acc)
                       ELSE pushCandidate(node.arguments[1], pos, acc))
                 ELSE acc
         IN  visitEach(node.arguments, pos, required)

visitEach(nodes, pos, acc) ==
    IF nodes = <<>> THEN acc
    ELSE visitEach(Tail(nodes), pos, visit(Head(nodes), pos, acc))

\* visit(source) over the statements from the i-th on, one statement a line
RECURSIVE visitStatements(_, _, _)
visitStatements(statements, i, acc) ==
    IF i > Len(statements) THEN acc
    ELSE visitStatements(statements, i + 1, visit(statements[i], i - 1, acc))

\* Parser.parse of a file that can be read
parse(statements) ==
    LET acc == visitStatements(statements, 1, NoParseAcc)
    IN  ParseResult(acc.valueImports, acc.typeOnlyImports, acc.dynamicCandidates)


----------------------------------------------------------------------------
(* Specification SpecParse: Parser.parse of one file, statement by
   statement, followed by Analyzer.analyze of the package that holds it *)

\* Number of statements of the file
MaxStatements == 2

TypeOnlyClause ==
    [present |-> TRUE, isTypeOnly |-> TRUE, name |-> TRUE, namedBindings |-> "none",
     elements |-> <<>>]

RequireReact == CallExpression("require", <<StringLiteral(react, "'react'")>>,
                               "require('react')")

\* import 'lodash'; import type React from 'react'; import(moduleName);
\* require(moduleName); require('react'); import(`lodash`) (the source text
\* of a template is spelled out, a string of the model holding no backquote);
\* require(require('react')); import(load(require('react')))
PrStatements ==
    {ImportDeclaration(StringLiteral(lodash, "'lodash'"), NoClause),
     ImportDeclaration(StringLiteral(react, "'react'"), TypeOnlyClause),
     CallExpression("import", <<Identifier("moduleName")>>, "import(moduleName)"),
     CallExpression("require", <<Identifier("moduleName")>>, "require(moduleName)"),
     RequireReact,
     CallExpression("import", <<TemplateLiteral(lodash, "lodash in backquotes")>>,
                    "import of lodash in backquotes"),
     CallExpression("require", <<RequireReact>>, "require(require('react'))"),
     CallExpression("import",
         <<CallExpression("load", <<RequireReact>>, "load(require('react'))")>>,
         "import(load(require('react')))")}

PrSourceFiles == UNION {[1..n -> PrStatements] : n \in 0..MaxStatements}

\* The package declares react at runtime, or as a dev dependency
PrPackages ==
    {PackageInfo(pkgA, "/repo/packages/a", [k \in {react} |-> r1], EmptyMap, EmptyMap,
                 EmptyMap),
     PackageInfo(pkgA, "/repo/packages/a", EmptyMap, [k \in {react} |-> r1], EmptyMap,
                 EmptyMap)}

InitParse ==
    /\ sourceFile \in PrSourceFiles
    /\ sourceIsDev \in BOOLEAN
    /\ parseIdx = 0
    /\ parseAcc = NoParseAcc
    /\ pkg \in PrPackages
    /\ scanResults = <<>>
    /\ ignoreDependencies = {}
    /\ fileIdx = 0
    /\ prodImports = <<>>
    /\ devImports = <<>>
    /\ dynamicCandidates = <<>>
    /\ result = NoResult
    /\ WsIdle
    /\ IpIdle
    /\ FsIdle
    /\ RunIdle
    /\ pc = "parse"

\* visit of the next statement of the source file, children included
ParseStatement ==
    /\ pc = "parse"
    /\ parseIdx < Len(sourceFile)
    /\ parseAcc' = visit(sourceFile[parseIdx + 1], parseIdx, parseAcc)
    /\ parseIdx' = parseIdx + 1
    /\ UNCHANGED <<sourceFile, sourceIsDev, anVars, wsVars, ipVars, fsVars, runVars, pc>>

\* The return of parse, which the scanner's entry of the file carries to
\* analyze
ParseReturn ==
    /\ pc = "parse"
    /\ parseIdx = Len(sourceFile)
    /\ scanResults' = <<[isDev |-> sourceIsDev,
                         parsed |-> ParseResult(parseAcc.valueImports,
                                                parseAcc.typeOnlyImports,
                                                parseAcc.dynamicCandidates)]>>
    /\ pc' = "analyze"
    /\ UNCHANGED <<pkg, ignoreDependencies, fileIdx, prodImports, devImports,
                   dynamicCandidates, result, prVars, wsVars, ipVars, fsVars, runVars>>

NextParse == ParseStatement \/ ParseReturn \/ AnalyzeFile \/ AnalyzeReport

SpecParse == InitParse /\ [][NextParse]_vars

----------------------------------------------------------------------------
(* Claims about the dynamic candidates, checked under SpecParse *)

\* An import() or require() call whose argument is not a string literal
IsDynamicCall(node) ==
    /\ node.kind = "CallExpression"
    /\ \/ node.callee = "import" /\ node.arguments # <<>>
       \/ node.callee = "require" /\ Len(node.arguments) = 1
    /\ node.arguments[1].kind \notin {"StringLiteral", "NoSubstitutionTemplateLiteral"}

\* The node is, or contains, an import() or require() call of a string
\* literal
RECURSIVE HoldsLiteralCall(_)
HoldsLiteralCall(node) ==
    \/ /\ node.kind = "CallExpression"
       /\ node.callee \in {"import", "require"}
       /\ node.arguments # <<>>
       /\ node.arguments[1].kind \in {"StringLiteral", "NoSubstitutionTemplateLiteral"}
    \/ \E i \in 1..Len(node.arguments) : HoldsLiteralCall(node.arguments[i])

RemoveAt(s, i) == SubSeq(s, 1, i - 1) \o SubSeq(s, i + 1, Len(s))

\* What analyze returns for the package when the i-th statement is removed
\* from the file
AnalysisWithout(i) ==
    Analyze(pkg, <<[isDev |-> sourceIsDev, parsed |-> parse(RemoveAt(sourceFile, i))]>>,
            ignoreDependencies)

SameFindings(a, b) ==
    /\ a.prodImports = b.prodImports
    /\ a.devImports = b.devImports
    /\ a.unused = b.unused
    /\ a.missing = b.missing
    /\ a.wrongType = b.wrongType

\* The call of line i is a dynamic candidate with that line and the source
\* text of its argument
ListedAsCandidate(i) ==
    \E k \in 1..Len(result.dynamicCandidates) :
        /\ result.dynamicCandidates[k].line = i
        /\ result.dynamicCandidates[k].expression = sourceFile[i].arguments[1].source

\* C15 as claimed: every import() or require() call of the file whose
\* argument is not a string literal is listed in dynamicCandidates with its
\* line and argument text, and removing the call from the file changes none
\* of prodImports, devImports, unused, missing and wrongType
C15_DynamicCallNeverChangesFindings ==
    result # NoResult =>
        \A i \in 1..Len(sourceFile) :
            IsDynamicCall(sourceFile[i]) =>
                /\ ListedAsCandidate(i)
                /\ SameFindings(result, AnalysisWithout(i))

\* C15 amended: the same, except that removing a require call whose
\* argument holds an import() or require() call of a string literal may
\* change the findings, the inner call being an import of its own
C15_DynamicCallChangesFindingsOnlyByInnerCall ==
    result # NoResult =>
        \A i \in 1..Len(sourceFile) :
            IsDynamicCall(sourceFile[i]) =>
                /\ ListedAsCandidate(i)
                /\ \/ /\ sourceFile[i].callee = "require"
                      /\ HoldsLiteralCall(sourceFile[i].arguments[1])
                   \/ SameFindings(result, AnalysisWithout(i))

\* The analysis of a file that imports lodash and calls import(moduleName):
\* lodash is an import, the call a candidate of line 2
C15_Witness ==
    /\ result # NoResult
    /\ Len(sourceFile) = 2
    /\ sourceFile[1].kind = "ImportDeclaration"
    /\ IsDynamicCall(sourceFile[2])
    /\ sourceFile[2].callee = "import"
    /\ sourceFile[2].arguments[1].kind = "Identifier"
    /\ result.prodImports = <<lodash>>
    /\ Len(result.dynamicCandidates) = 1
    /\ result.dynamicCandidates[1].line = 2


----------------------------------------------------------------------------
(* Claims about the order of the report, checked under SpecRun *)

\* C16: two runs over the same tree with the same options report the same
\* issues in the same order, in whatever order the registry lookups of
\* each run complete
C16_RerunReportsTheSame == RunDone => reported = rerunReported


----------------------------------------------------------------------------
(* Scanner.scan (scanner.ts) and the ignore patterns index.ts builds for
   the packages nested in a package *)

\* A path is a sequence of segments, a segment a sequence of lexemes; its
\* text on the platform puts the separator before every segment
RECURSIVE PathText(_, _)
PathText(segments, sep) ==
    IF segments = <<>> THEN <<>>
    ELSE <<sep>> \o Head(segments) \o PathText(Tail(segments), sep)

\* The segments of an absolute path
PathSegments(text, sep) == Tail(SplitOn(text, sep))

\* String.prototype.startsWith
StartsWith(str, prefix) ==
    Len(prefix) <= Len(str) /\ SubSeq(str, 1, Len(prefix)) = prefix

\* The number of leading segments two paths share
RECURSIVE CommonSegments(_, _)
CommonSegments(a, b) ==
    IF a = <<>> \/ b = <<>> \/ Head(a) # Head(b) THEN 0
    ELSE 1 + CommonSegments(Tail(a), Tail(b))

\* path.relative(from, to) of two absolute paths, in the separator of the
\* platform
relative(from, to, sep) ==
    LET fromSegments == PathSegments(from, sep)
        toSegments == PathSegments(to, sep)
        common == CommonSegments(fromSegments, toSegments)
        steps == [i \in 1..(Len(fromSegments) - common) |-> <<"..">>]
                 \o SubSeq(toSegments, common + 1, Len(toSegments))
    IN  IF steps = <<>> THEN <<>> ELSE Tail(PathText(steps, sep))

nestedPackagePatternsNone(pkgs, p, sep) == <<>>

\* nestedPackages and nestedPackagePatterns
nestedPackagePatterns(pkgs, p, sep) ==
    LET nestedPackages == SelectSeq(pkgs, LAMBDA other :
                              /\ other.location # p.location
                              /\ StartsWith(other.location, p.location))
    IN  [i \in 1..Len(nestedPackages) |->
            relative(p.location, nestedPackages[i].location, sep) \o <<"/", "**">>]

\* glob reads a pattern segment by segment, "/" being the only separator of
\* a pattern and a backslash escaping the lexeme after it
PatternSegments(pattern) ==
    LET raw == SplitOn(pattern, "/")
    IN  [i \in 1..Len(raw) |-> SelectSeq(raw[i], LAMBDA l : l # "\\")]

\* A pattern "<directory>/**" matches the files below the directory
MatchesBelow(pattern, relFile) ==
    LET segments == PatternSegments(pattern)
        directory == SubSeq(segments, 1, Len(segments) - 1)
    IN  /\ segments[Len(segments)] = <<"**">>
        /\ Len(directory) <= Len(relFile)
        /\ SubSeq(relFile, 1, Len(directory)) = directory

SourceExtensions == {".ts", ".tsx", ".js", ".jsx", ".mjs", ".cjs"}

IgnoredDirectories == {<<"node_modules">>, <<"dist">>, <<"build">>, <<"fixtures">>,
                       <<"coverage">>}

\* The ignore list of scan without the additional patterns
IgnoredByDefault(relFile) ==
    LET name == relFile[Len(relFile)]
    IN  \/ \E i \in 1..(Len(relFile) - 1) : relFile[i] \in IgnoredDirectories
        \/ Len(name) >= 2 /\ name[Len(name)] = ".ts" /\ name[Len(name) - 1] = ".d"

\* glob('**/*.{ts,tsx,js,jsx,mjs,cjs}', { cwd: directory, ignore, absolute })
\* over the files of the tree
scan(files, directory, additionalIgnore, sep) ==
    LET cwd == PathSegments(directory, sep)
    IN  {file \in files :
            /\ Len(file) > Len(cwd)
            /\ SubSeq(file, 1, Len(cwd)) = cwd
            /\ LET relFile == SubSeq(file, Len(cwd) + 1, Len(file))
                   name == relFile[Len(relFile)]
               IN  /\ name[Len(name)] \in SourceExtensions
                   /\ ~IgnoredByDefault(relFile)
                   /\ \A i \in 1..Len(additionalIgnore) :
                         ~MatchesBelow(additionalIgnore[i], relFile)}

----------------------------------------------------------------------------
(* Specification SpecScan: the scans of the per-package loop of index.ts *)

\* Number of packages of the graph
MaxScanPackages == 2

ScRepo == << <<"repo">> >>
ScPackageA == << <<"repo">>, <<"packages">>, <<"a">> >>
ScPackageAb == << <<"repo">>, <<"packages">>, <<"a", "b">> >>
ScNested == << <<"repo">>, <<"packages">>, <<"a">>, <<"nested">> >>

\* The root, packages/a, its sibling packages/ab and packages/a/nested
ScDirectories == {ScRepo, ScPackageA, ScPackageAb, ScNested}

\* index.ts in each of the directories, and a file of an installed module
ScFiles ==
    {Append(d, <<"index", ".ts">>) : d \in ScDirectories}
    \cup {ScPackageA \o << <<"node_modules">>, <<"lodash">>, <<"index", ".js">> >>}

\* The graphs: packages in distinct directories, in any order
ScGraphs(sep) ==
    {[i \in 1..Len(ds) |->
         PackageInfo(<<ds[i][Len(ds[i])]>>, PathText(ds[i], sep), EmptyMap, EmptyMap,
                     EmptyMap, EmptyMap)] :
        ds \in {d \in UNION {[1..n -> ScDirectories] : n \in 1..MaxScanPackages} :
                   \A i, j \in 1..Len(d) : d[i] = d[j] => i = j}}

InitScan ==
    /\ pathSep \in {"/", "\\"}
    /\ packages \in ScGraphs(pathSep)
    /\ tree \in SUBSET ScFiles
    /\ scanned = <<>>
    /\ manifestFiles = <<>>
    /\ loadIdx = 0
    /\ rootDir = PathText(ScRepo, pathSep)
    /\ usedImports = EmptyMap
    /\ prodImportsByPackage = EmptyMap
    /\ devImportsByPackage = EmptyMap
    /\ policy = "root-shared"
    /\ issues = <<>>
    /\ AnIdle
    /\ IpIdle
    /\ PrIdle
    /\ RunIdle
    /\ pc = "scan"

\* One iteration of the loop over the packages, up to the scan of analyze
ScanPackage ==
    /\ pc = "scan"
    /\ runIdx < Len(packages)
    /\ LET p == packages[runIdx + 1]
           ignorePatterns == nestedPackagePatterns(packages, p, pathSep)
       IN  scanned' = Append(scanned, scan(tree, p.location, ignorePatterns, pathSep))
    /\ runIdx' = runIdx + 1
    /\ UNCHANGED <<options, config, scans, lookups, versionCache, stats,
                   packagesWithIssues, reported, rerunReported, exitCode, manifestFiles,
                   loadIdx, tree, pathSep, anVars, wsVars, ipVars, prVars, pc>>

\* The end of the loop
ScanEnd ==
    /\ pc = "scan"
    /\ runIdx = Len(packages)
    /\ pc' = "done"
    /\ UNCHANGED <<anVars, wsVars, ipVars, prVars, fsVars, runVars>>

NextScan == ScanPackage \/ ScanEnd

SpecScan == InitScan /\ [][NextScan]_vars

----------------------------------------------------------------------------
(* Claims about the scans, checked under SpecScan *)

----------------------------------------------------------------------------
(* Specification SpecGraph: MonorepoManager.getPackages (monorepo.ts) and
   the maps index.ts keys by package name *)

\* Number of package.json files the workspace patterns match
MaxWorkspaceManifests == 2

GrAppsA == << <<"repo">>, <<"apps">>, <<"a">> >>
GrPackageB == << <<"repo">>, <<"packages">>, <<"b">> >>

\* packages/a, apps/a and packages/b
GrDirectories == {ScPackageA, GrAppsA, GrPackageB}

\* A package.json: whether JSON.parse accepts it, and its "name" when it
\* does, <<>> standing for no name or an empty one
ManifestFile(directory, parses, name) ==
    [directory |-> directory, parses |-> parses, name |-> name]

\* What a package.json of a directory may hold
GrManifestsAt(directory) ==
    {ManifestFile(directory, FALSE, <<>>)}
    \cup {ManifestFile(directory, TRUE, name) : name \in {<<>>, pkgA, pkgB}}

\* The paths glob returns, in any order, each with what its file holds
GrWorkspaceManifests ==
    UNION {{ms \in [1..n -> UNION {GrManifestsAt(d) : d \in GrDirectories}] :
               \A i, j \in 1..n : ms[i].directory = ms[j].directory => i = j} :
           n \in 1..MaxWorkspaceManifests}

\* The files analyze scans for the package of a location: only packages/a
\* has one, which imports lodash
GrFilesAt(location) ==
    IF location = PathText(ScPackageA, "/") THEN <<ValueFile(lodash, FALSE)>> ELSE <<>>

\* packageJsonPaths: the matches of the workspace patterns and, when the
\* root has a package.json, the root's after them
InitGraph ==
    /\ \E ms \in GrWorkspaceManifests :
          \/ manifestFiles = ms
          \/ \E root \in GrManifestsAt(ScRepo) : manifestFiles = Append(ms, root)
    /\ loadIdx = 0
    /\ tree = {}
    /\ scanned = <<>>
    /\ pathSep = "/"
    /\ packages = <<>>
    /\ rootDir = PathText(ScRepo, "/")
    /\ usedImports = EmptyMap
    /\ prodImportsByPackage = EmptyMap
    /\ devImportsByPackage = EmptyMap
    /\ policy = "root-shared"
    /\ issues = <<>>
    /\ AnIdle
    /\ IpIdle
    /\ PrIdle
    /\ RunIdle
    /\ pc = "load"

\* One iteration of the loop over packageJsonPaths: a file JSON.parse
\* rejects is warned about and left out
LoadManifest ==
    /\ pc = "load"
    /\ loadIdx < Len(manifestFiles)
    /\ loadIdx' = loadIdx + 1
    /\ LET file == manifestFiles[loadIdx + 1]
           basename == <<file.directory[Len(file.directory)]>>
       IN  packages' =
              IF file.parses
              THEN Append(packages,
                       PackageInfo(IF Truthy(file.name) THEN file.name ELSE basename,
                                   PathText(file.directory, pathSep),
                                   EmptyMap, EmptyMap, EmptyMap, EmptyMap))
              ELSE packages
    /\ UNCHANGED <<rootDir, usedImports, prodImportsByPackage, devImportsByPackage,
                   policy, issues, manifestFiles, tree, scanned, pathSep, anVars, ipVars,
                   prVars, runVars, pc>>

\* return packages
GetPackagesReturn ==
    /\ pc = "load"
    /\ loadIdx = Len(manifestFiles)
    /\ pc' = "record"
    /\ UNCHANGED <<anVars, wsVars, ipVars, prVars, fsVars, runVars>>

\* One iteration of the loop over the packages, up to the writes of the maps
\* keyed by package name
RecordImports ==
    /\ pc = "record"
    /\ runIdx < Len(packages)
    /\ runIdx' = runIdx + 1
    /\ LET p == packages[runIdx + 1]
           analysis == Analyze(p, GrFilesAt(p.location), {})
       IN  /\ usedImports' = Spread(usedImports,
                 [k \in {p.name} |->
                     AllImports(analysis.prodImports, analysis.devImports)])
           /\ prodImportsByPackage' = Spread(prodImportsByPackage,
                 [k \in {p.name} |-> analysis.prodImports])
           /\ devImportsByPackage' = Spread(devImportsByPackage,
                 [k \in {p.name} |-> analysis.devImports])
    /\ UNCHANGED <<packages, rootDir, policy, issues, options, config, scans, lookups,
                   versionCache, stats, packagesWithIssues, reported, rerunReported,
                   exitCode, anVars, ipVars, prVars, fsVars, pc>>

\* The end of the loop
RecordEnd ==
    /\ pc = "record"
    /\ runIdx = Len(packages)
    /\ pc' = "done"
    /\ UNCHANGED <<anVars, wsVars, ipVars, prVars, fsVars, runVars>>

NextGraph == LoadManifest \/ GetPackagesReturn \/ RecordImports \/ RecordEnd

SpecGraph == InitGraph /\ [][NextGraph]_vars

----------------------------------------------------------------------------
(* Claims about the graph, checked under SpecGraph *)

\* C18: no two entries of the graph have the same name, and once every
\* package is recorded each of the maps keyed by name holds one entry per
\* package
C18_PackageNamesUnique ==
    /\ \A i, j \in 1..Len(packages) : packages[i].name = packages[j].name => i = j
    /\ pc = "done" =>
          /\ Cardinality(DOMAIN usedImports) = Len(packages)
          /\ Cardinality(DOMAIN prodImportsByPackage) = Len(packages)
          /\ Cardinality(DOMAIN devImportsByPackage) = Len(packages)


----------------------------------------------------------------------------
(* Claims about skipped packages and registry lookups, checked under
   SpecRun *)

\* C19: no reported issue is an issue of a package listed in
\* config.skipPackages, and no such package is counted among the packages
\* with issues
C19_SkippedPackageNeverReported ==
    \A name \in config.skipPackages :
        /\ \A i \in 1..Len(reported) : reported[i].package # name
        /\ name \notin packagesWithIssues


\* C20: the registry is asked for no dependency name more than once in a run
C20_OneLookupPerName ==
    \A name \in DOMAIN lookups : lookups[name] <= 1


----------------------------------------------------------------------------
(* Further claims about Analyzer.analyze, checked under SpecAnalyze *)

\* The package names the imports of a list contribute
Contributed(imports) ==
    {ImportedPackage(imports[i]) : i \in 1..Len(imports)} \ {NoName}

\* The file an AnalyzeFile step reduces
ReducedFile == scanResults[fileIdx + 1]

\* C21: a step of the reduction removes no name from prodImports; of the
\* names the type-only imports of the file contribute, the ones then in
\* prodImports are in devImports after the step only if they were before or
\* a value import of a dev file added them, and all the others are in
\* devImports after the step, whatever the tag of the file
C21_TypeOnlyNeverDemotes ==
    [][fileIdx' = fileIdx + 1 =>
          /\ Range(prodImports) \subseteq Range(prodImports')
          /\ \A name \in Contributed(ReducedFile.parsed.typeOnlyImports) :
                IF name \in Range(prodImports')
                THEN name \in Range(devImports') =>
                        \/ name \in Range(devImports)
                        \/ /\ ReducedFile.isDev
                           /\ name \in Contributed(ReducedFile.parsed.valueImports)
                ELSE name \in Range(devImports')]_vars

\* A type-only import of a name that a prod file imported as a value has
\* been reduced, and so has a type-only import in a prod file of a name
\* not in prodImports
C21_Witness ==
    /\ fileIdx = 2
    /\ ~scanResults[1].isDev
    /\ scanResults[1].parsed.valueImports = <<lodash>>
    /\ scanResults[2].parsed.typeOnlyImports = <<lodash>>
    /\ prodImports = <<lodash>>
    /\ devImports = <<>>


----------------------------------------------------------------------------
(* Specification SpecSpecifiers: the reduction of analyze over every shape
   of specifier *)

\* Number of files Scanner.scan returns for the analysed package
MaxSpecifierFiles == 2

typesNodeFs == << <<"@", "types">>, <<"node">>, <<"fs">> >>
absUtil     == << << >>, <<"abs">>, <<"util">> >>
bun         == << <<"bun">> >>
bunTest     == << <<"bun:", "test">> >>
fsPromises  == << <<"fs">>, <<"promises">> >>
nodeTest    == << <<"node:", "test">> >>
testName    == << <<"test">> >>

\* Package specifiers with and without a subpath, a relative and an
\* absolute one, the embedded runtime's, and platform modules with and
\* without the prefix
SpSpecifiers ==
    {lodash, lodashFp, typesNode, typesNodeFs, relUtil, absUtil, bun, bunTest,
     fsName, fsPromises, nodeFs, nodeTest}

\* Each file holds one import, value or type-only
SpScanResults ==
    [isDev : BOOLEAN,
     parsed : {ParseResult(<<imp>>, <<>>, <<>>) : imp \in SpSpecifiers}
              \cup {ParseResult(<<>>, <<imp>>, <<>>) : imp \in SpSpecifiers}]

InitSpecifiers ==
    /\ pkg = PackageInfo(pkgA, "/repo/a", [k \in {lodash} |-> r1], EmptyMap, EmptyMap,
                         EmptyMap)
    /\ scanResults \in UNION {[1..n -> SpScanResults] : n \in 1..MaxSpecifierFiles}
    /\ ignoreDependencies = {}
    /\ fileIdx = 0
    /\ prodImports = <<>>
    /\ devImports = <<>>
    /\ dynamicCandidates = <<>>
    /\ result = NoResult
    /\ WsIdle
    /\ IpIdle
    /\ OtherIdle
    /\ pc = "analyze"

SpecSpecifiers == InitSpecifiers /\ [][NextAnalyze]_vars

----------------------------------------------------------------------------
(* Claims about the specifiers, checked under SpecSpecifiers *)

\* The modules of the platform: the ones module.builtinModules lists bare,
\* and the ones that exist under the "node:" prefix only
PlatformModules == {fsName, pathName, fsPromises}
PrefixOnlyModules == {testName}

HasNodePrefix(imp) == imp[1] # <<>> /\ imp[1][1] = "node:"

\* module.isBuiltin(imp)
IsPlatformBuiltin(imp) ==
    \/ imp \in PlatformModules
    \/ /\ HasNodePrefix(imp)
       /\ (<<Tail(imp[1])>> \o Tail(imp)) \in PlatformModules \cup PrefixOnlyModules

\* The specifiers that are to contribute nothing
IsDroppedSpecifier(imp) ==
    \/ imp[1] # <<>> /\ imp[1][1] = "."
    \/ imp[1] = <<>>
    \/ imp = bun
    \/ imp[1] # <<>> /\ imp[1][1] = "bun:"
    \/ IsPlatformBuiltin(imp)

\* The first two segments of a specifier that starts with "@", the first
\* segment of any other
ExpectedPackageName(imp) ==
    IF imp[1] # <<>> /\ imp[1][1] = "@" THEN SubSeq(imp, 1, 2) ELSE SubSeq(imp, 1, 1)

SpecifiersOf(file) ==
    Range(file.parsed.valueImports) \cup Range(file.parsed.typeOnlyImports)

\* C22: the names a step of the reduction adds to prodImports and
\* devImports are package names of specifiers of the file that are not
\* relative, absolute, the embedded runtime's or the platform's, and the
\* package name of every such specifier is in one of the sets after the step
C22_OnlyPackageNamesAreAdded ==
    [][fileIdx' = fileIdx + 1 =>
          LET kept == {imp \in SpecifiersOf(ReducedFile) : ~IsDroppedSpecifier(imp)}
              names == {ExpectedPackageName(imp) : imp \in kept}
          IN  /\ (Range(prodImports') \cup Range(devImports'))
                    \ (Range(prodImports) \cup Range(devImports)) \subseteq names
              /\ names \subseteq Range(prodImports') \cup Range(devImports')]_vars


----------------------------------------------------------------------------
(* Specification SpecClauses: Parser.parse of a file of import
   declarations, one per shape of import clause *)

\* An import clause: whether "import type" marks the whole of it, whether
\* it has a default binding, and its named bindings, TRUE standing for an
\* element marked "type"
ImportClause(isTypeOnly, name, namedBindings, elements) ==
    [present |-> TRUE, isTypeOnly |-> isTypeOnly, name |-> name,
     namedBindings |-> namedBindings, elements |-> elements]

\* No clause (a side-effect import); D; * as ns; {}; { a }; { type T };
\* { type T, a }; { type T, type U }; D, { type T }; D, { a }; type D;
\* type { T }; type * as ns
PrClauses ==
    {NoClause,
     ImportClause(FALSE, TRUE, "none", <<>>),
     ImportClause(FALSE, FALSE, "namespace", <<>>),
     ImportClause(FALSE, FALSE, "named", <<>>),
     ImportClause(FALSE, FALSE, "named", <<FALSE>>),
     ImportClause(FALSE, FALSE, "named", <<TRUE>>),
     ImportClause(FALSE, FALSE, "named", <<TRUE, FALSE>>),
     ImportClause(FALSE, FALSE, "named", <<TRUE, TRUE>>),
     ImportClause(FALSE, TRUE, "named", <<TRUE>>),
     ImportClause(FALSE, TRUE, "named", <<FALSE>>),
     ImportClause(TRUE, TRUE, "none", <<>>),
     ImportClause(TRUE, FALSE, "named", <<FALSE>>),
     ImportClause(TRUE, FALSE, "namespace", <<>>)}

\* The declarations import lodash or react
PrImportDeclarations ==
    {ImportDeclaration(StringLiteral(lodash, "'lodash'"), clause) : clause \in PrClauses}
    \cup {ImportDeclaration(StringLiteral(react, "'react'"), clause) : clause \in PrClauses}

InitClauses ==
    /\ sourceFile \in UNION {[1..n -> PrImportDeclarations] : n \in 1..MaxStatements}
    /\ sourceIsDev = FALSE
    /\ parseIdx = 0
    /\ parseAcc = NoParseAcc
    /\ pkg = PackageInfo(pkgA, "/repo/packages/a", [k \in {react} |-> r1], EmptyMap,
                         EmptyMap, EmptyMap)
    /\ scanResults = <<>>
    /\ ignoreDependencies = {}
    /\ fileIdx = 0
    /\ prodImports = <<>>
    /\ devImports = <<>>
    /\ dynamicCandidates = <<>>
    /\ result = NoResult
    /\ WsIdle
    /\ IpIdle
    /\ FsIdle
    /\ RunIdle
    /\ pc = "parse"

SpecClauses == InitClauses /\ [][NextParse]_vars

----------------------------------------------------------------------------
(* Claims about import clauses, checked under SpecClauses *)

\* The whole clause is marked type-only, or it has no default binding and
\* at least one named binding, and each of its named bindings is marked
IsTypeOnlyClause(clause) ==
    /\ clause.present
    /\ \/ clause.isTypeOnly
       \/ /\ ~clause.name
          /\ clause.namedBindings = "named"
          /\ Len(clause.elements) >= 1
          /\ \A i \in 1..Len(clause.elements) : clause.elements[i]

\* C23: the visit of an import declaration adds its specifier to the
\* type-only imports and leaves the value imports alone if the clause is
\* type-only in the sense above, and otherwise adds it to the value imports
\* and leaves the type-only imports alone
C23_TypeOnlyIffClauseIsTypeOnly ==
    [][parseIdx' = parseIdx + 1 /\ sourceFile[parseIdx + 1].kind = "ImportDeclaration" =>
          LET node == sourceFile[parseIdx + 1]
              moduleName == node.moduleSpecifier[1].text
          IN  IF IsTypeOnlyClause(node.clause)
              THEN /\ moduleName \in Range(parseAcc'.typeOnlyImports)
                   /\ parseAcc'.valueImports = parseAcc.valueImports
              ELSE /\ moduleName \in Range(parseAcc'.valueImports)
                   /\ parseAcc'.typeOnlyImports = parseAcc.typeOnlyImports]_vars

\* import { type T, type U } from 'lodash' and import D, { type T } from
\* 'react' have been visited
C23_Witness ==
    /\ parseIdx = 2
    /\ sourceFile[1] = ImportDeclaration(StringLiteral(lodash, "'lodash'"),
                           ImportClause(FALSE, FALSE, "named", <<TRUE, TRUE>>))
    /\ sourceFile[2] = ImportDeclaration(StringLiteral(react, "'react'"),
                           ImportClause(FALSE, TRUE, "named", <<TRUE>>))
    /\ parseAcc.typeOnlyImports = <<lodash>>
    /\ parseAcc.valueImports = <<react>>


----------------------------------------------------------------------------
(* A further claim about PeerChecker.check, checked under SpecPeer *)

\* C24: every incompatible-peer issue is about a provided range a version
\* can be extracted from and a peer range semver can parse
C24_UnparsableRangeIsSatisfied ==
    \A i \in 1..Len(issues) :
        issues[i].type = "incompatible-peer" =>
            /\ cleanVersion(issues[i].detail[2]) # NoVersion
            /\ validRange(issues[i].detail[1])


----------------------------------------------------------------------------
(* A claim about the order of the scanned files, checked under
   SpecAnalyze *)

\* The scanned files in every order
Reorderings(files) ==
    {[i \in 1..Len(files) |-> files[f[i]]] : f \in Permutations(1..Len(files))}

\* Two results of analyze with the same import sets and, as sets, the same
\* unused, missing and wrongType lists
SameAnalysis(a, b) ==
    /\ Range(a.prodImports) = Range(b.prodImports)
    /\ Range(a.devImports) = Range(b.devImports)
    /\ Range(a.unused) = Range(b.unused)
    /\ Range(a.missing) = Range(b.missing)
    /\ Range(a.wrongType) = Range(b.wrongType)

\* C25: what analyze returns is what it returns for the same files in any
\* other order
C25_FileOrderDoesNotMatter ==
    pc = "done" =>
        \A files \in Reorderings(scanResults) :
            SameAnalysis(result, Analyze(pkg, files, ignoreDependencies))


----------------------------------------------------------------------------
(* Specification SpecClassify: the dev/prod classification of Scanner.scan
   (scanner.ts) *)

\* The last lexemes of a file name
EndsWith(name, suffix) ==
    /\ Len(suffix) <= Len(name)
    /\ SubSeq(name, Len(name) - Len(suffix) + 1, Len(name)) = suffix

DevDirectories == {<<"test">>, <<"tests">>, <<"__tests__">>, <<"__mocks__">>, <<"e2e">>,
                   <<"cypress">>, <<".storybook">>}

\* isDev of a file, tested on its absolute path with "/" for the separator:
\* the segments of the path, the last being the file name
isDev(file) ==
    LET name == file[Len(file)]
        extension == name[Len(name)]
        stem == SubSeq(name, 1, Len(name) - 1)
    IN  \/ /\ Len(stem) >= 1
           /\ stem[Len(stem)] \in {".test", ".spec"}
           /\ extension \in {".ts", ".tsx", ".js", ".jsx", ".mts", ".cts", ".mjs", ".cjs"}
        \/ /\ Len(stem) >= 1
           /\ stem[Len(stem)] \in {".stories", ".story"}
           /\ extension \in {".ts", ".tsx", ".js", ".jsx"}
        \/ \E i \in 1..(Len(file) - 1) : file[i] \in DevDirectories
        \/ stem = <<"setupTests">> /\ extension \in {".ts", ".tsx", ".js", ".jsx"}
        \/ /\ \E tool \in {"jest", "vitest", "playwright", "cypress"} :
                 EndsWith(stem, <<tool, ".config">>)
           /\ extension \in {".ts", ".js"}
        \/ /\ stem \in {<<"vite", ".config">>, <<"slidev", ".config">>}
           /\ extension \in {".ts", ".mts", ".cts"}

\* The directories the package of the model may be checked out in
ClDirectories ==
    {<< <<"repo">>, <<"a">> >>,
     << <<"home">>, <<"tests">>, <<"a">> >>,
     << <<"test">>, <<"repo">>, <<"a">> >>}

\* The files of the package, relative to its directory
ClFiles ==
    {<< <<"src">>, <<"index", ".ts">> >>,
     << <<"src">>, <<"index", ".test", ".ts">> >>,
     << <<"src">>, <<"Button", ".stories", ".tsx">> >>,
     << <<"test">>, <<"helper", ".ts">> >>,
     << <<".storybook">>, <<"main", ".ts">> >>,
     << <<"setupTests", ".ts">> >>,
     << <<"jest", ".config", ".js">> >>,
     << <<"vite", ".config", ".ts">> >>}

InitClassify ==
    /\ pathSep \in {"/", "\\"}
    /\ \E directory \in ClDirectories :
          /\ packages = <<PackageInfo(pkgA, PathText(directory, pathSep), EmptyMap,
                                      EmptyMap, EmptyMap, EmptyMap)>>
          /\ \E files \in SUBSET ClFiles : tree = {directory \o file : file \in files}
    /\ scanned = <<>>
    /\ manifestFiles = <<>>
    /\ loadIdx = 0
    /\ rootDir = PathText(ScRepo, pathSep)
    /\ usedImports = EmptyMap
    /\ prodImportsByPackage = EmptyMap
    /\ devImportsByPackage = EmptyMap
    /\ policy = "root-shared"
    /\ issues = <<>>
    /\ AnIdle
    /\ IpIdle
    /\ PrIdle
    /\ RunIdle
    /\ pc = "scan"

\* Scanner.scan of the package: the files of glob, each with its isDev
ScanClassify ==
    /\ pc = "scan"
    /\ scanned' = <<{[file |-> file, isDev |-> isDev(file)] :
                       file \in scan(tree, packages[1].location, <<>>, pathSep)}>>
    /\ pc' = "done"
    /\ UNCHANGED <<manifestFiles, loadIdx, tree, pathSep, anVars, wsVars, ipVars, prVars,
                   runVars>>

NextClassify == ScanClassify

SpecClassify == InitClassify /\ [][NextClassify]_vars

----------------------------------------------------------------------------
(* A claim about the classification, checked under SpecClassify *)

\* C26: every scanned file is classified as the file with the same path
\* relative to the package is classified when the package lies in any other
\* directory
C26_ClassificationIsRelative ==
    pc = "done" =>
        LET directory == PathSegments(packages[1].location, pathSep)
        IN  \A entry \in scanned[1] : \A other \in ClDirectories :
                entry.isDev =
                    isDev(other \o SubSeq(entry.file, Len(directory) + 1, Len(entry.file)))


----------------------------------------------------------------------------
(* A further claim about ConsistencyChecker.check, checked under
   SpecConsistency *)

\* C27: in every mismatch record a package is listed with one range only,
\* the one of its peer entry, else of its dev entry, else of its runtime
\* entry; the package lists of two ranges are disjoint and no list names a
\* package twice
C27_PackageListsAreDisjoint ==
    pc = "done" =>
        \A m \in Range(issues) :
            /\ \A i, j \in 1..Len(m.versions) :
                  i # j => Range(m.versions[i].packages)
                              \cap Range(m.versions[j].packages) = {}
            /\ \A v \in Range(m.versions) :
                  /\ NoDuplicates(v.packages)
                  /\ \A q \in PackageSet :
                        q.name \in Range(v.packages) =>
                            EffectiveRanges(q, m.dependency) = {v.version}

\* A record lists a package that declares the dependency with two ranges
C27_Witness ==
    /\ pc = "done"
    /\ \E m \in Range(issues) : \E v \in Range(m.versions) : \E q \in PackageSet :
          /\ q.name \in Range(v.packages)
          /\ Cardinality(DeclaredRanges(q, m.dependency)) = 2


----------------------------------------------------------------------------
(* Specification SpecInternalRun: the CLI action over packages that import
   one another *)

\* The i-th package and its scanned files: nothing declared and another
\* package of the workspace imported by production code, or by a test; the
\* other package declared with the workspace protocol and imported; nothing
\* declared or imported
InternalRunWorkspace(i) ==
    {Workspace(i, EmptyMap, EmptyMap, EmptyMap, <<ValueFile(OtherPackage(i), FALSE)>>),
     Workspace(i, EmptyMap, EmptyMap, EmptyMap, <<ValueFile(OtherPackage(i), TRUE)>>),
     Workspace(i, [k \in {OtherPackage(i)} |-> rWorkspace], EmptyMap, EmptyMap,
               <<ValueFile(OtherPackage(i), FALSE)>>),
     Workspace(i, EmptyMap, EmptyMap, EmptyMap, <<>>)}

\* A plain run, with or without --only-extras, and with or without the
\* packages of the workspace in ignoreDependencies
InitInternalRun ==
    /\ \E t \in GraphsOf(InternalRunWorkspace, MaxRunPackages) :
          /\ packages = [i \in 1..Len(t) |-> t[i].manifest]
          /\ scans = [i \in 1..Len(t) |-> t[i].files]
    /\ \E extras \in BOOLEAN, ignored \in {{}, {pkgRoot, pkgA}} :
          /\ options = [onlyExtras |-> extras, outdated |-> TRUE,
                        checkInstalledPeers |-> FALSE, ownershipReport |-> FALSE]
          /\ config = [dynamicImportPolicy |-> "off", checkInstalledPeers |-> FALSE,
                       ownershipReport |-> FALSE, ownershipPolicy |-> "root-shared",
                       skipPackages |-> {}, checkOutdated |-> TRUE,
                       ignoreDependencies |-> ignored]
    /\ rootDir = RootLocation
    /\ usedImports = EmptyMap
    /\ prodImportsByPackage = EmptyMap
    /\ devImportsByPackage = EmptyMap
    /\ policy = "root-shared"
    /\ issues = <<>>
    /\ installed = RunInstalled
    /\ disk = RunDisk
    /\ manifestCache = EmptyMap
    /\ diskReads = [path \in {lodashManifestPath, reactManifestPath} |-> 0]
    /\ pkgIdx = 0
    /\ depIdx = 0
    /\ resolvedCount = 0
    /\ elapsed = 0
    /\ lookups = [n \in Range(NameOrder) |-> 0]
    /\ versionCache = EmptyMap
    /\ stats = NoStats
    /\ packagesWithIssues = {}
    /\ reported = <<>>
    /\ rerunReported = <<>>
    /\ exitCode = 0
    /\ runIdx = 0
    /\ AnIdle
    /\ PrIdle
    /\ FsIdle
    /\ pc = "run_prefetch"

SpecInternalRun == InitInternalRun /\ [][NextRun]_vars

----------------------------------------------------------------------------
(* A claim about imports of workspace packages, checked under
   SpecInternalRun *)

\* The unlisted-internal issues of the run
UnlistedInternal ==
    {issue \in Range(InternalCheck(packages, usedImports)) :
        issue.type = "unlisted-internal"}

\* C28: at the end of the run, the dependency of every unlisted-internal
\* issue that is not in ignoreDependencies is in the missing list analyze
\* returned for the package, and unless --only-extras is given the import
\* is reported and counted twice, as a missing and as an internal issue
C28_UnlistedInternalIsAlsoMissing ==
    RunDone =>
        \A issue \in UnlistedInternal : \A i \in 1..Len(packages) :
            (/\ packages[i].name = issue.packageName
             /\ issue.dependency \notin config.ignoreDependencies) =>
                /\ issue.dependency \in
                      Range(Analyze(packages[i], scans[i], config.ignoreDependencies).missing)
                /\ ~onlyExtras =>
                      /\ CompactIssue(issue.packageName, "missing", issue.dependency)
                            \in Range(reported)
                      /\ CompactIssue(issue.packageName, "internal", issue.dependency)
                            \in Range(reported)
                      /\ stats.missingCount = Len(ReportedOf("missing"))
                      /\ stats.internalCount = Len(ReportedOf("internal"))

\* A run without --only-extras reported an import of an undeclared
\* workspace package
C28_Witness ==
    /\ RunDone
    /\ ~onlyExtras
    /\ config.ignoreDependencies = {}
    /\ UnlistedInternal # {}
    /\ stats.missingCount >= 1
    /\ stats.internalCount >= 1

----------------------------------------------------------------------------
(* A further claim about checkInstalledPeers, checked under SpecInstalled *)

\* The dependency resolves to a manifest path whose file holds a JSON object:
\* the resolution succeeds, whether the file is read or the cache answers
ResolutionSucceeds(location, depName) ==
    /\ ~ResolveThrows(location, depName)
    /\ ~JsonParseThrows(disk[installed[location][depName]])
    /\ TruthyManifest(disk[installed[location][depName]])

\* The resolution step about to be taken is answered from the manifest cache
AnsweredFromCache ==
    /\ pc = "ip_resolve"
    /\ ~ResolveThrows(packages[pkgIdx].location, DeclaredDepNames(packages[pkgIdx])[depIdx])
    /\ installed[packages[pkgIdx].location][DeclaredDepNames(packages[pkgIdx])[depIdx]]
           \in DOMAIN manifestCache

C29_CounterFollowsResolutions ==
    [][IF pc = "ip_resolve"
       THEN IF ResolutionSucceeds(packages[pkgIdx].location,
                                  DeclaredDepNames(packages[pkgIdx])[depIdx])
            THEN resolvedCount' = resolvedCount + 1
            ELSE resolvedCount' = resolvedCount /\ issues' = issues
       ELSE resolvedCount' = resolvedCount]_vars

C29_CounterWithinCap == resolvedCount <= maxResolvedManifests

\* C29: the resolved-manifest counter increases by exactly one for every
\* successful resolution, one answered from the manifest cache included, a
\* failed resolution leaves the counter and the issues unchanged, and the
\* counter never exceeds the cap.
C29_CounterCountsSuccessfulResolutions ==
    /\ C29_CounterFollowsResolutions
    /\ []C29_CounterWithinCap

\* C29 witness: the call has returned with the counter at the cap after one
\* read of lodash's manifest, one resolution of lodash answered from the
\* cache, and a failed resolution of react in between.
C29_Witness ==
    /\ pc = "done"
    /\ resolvedCount = maxResolvedManifests
    /\ diskReads[lodashManifestPath] = 1
    /\ diskReads[reactManifestPath] = 0
    /\ lodashManifestPath \in DOMAIN manifestCache
    /\ react \in Range(DeclaredDepNames(packages[1]))
    /\ ResolveThrows(packages[1].location, react)

----------------------------------------------------------------------------
(* A further claim about the run, checked under SpecRun *)

\* The lines printed after the header whose tag is a blocking type
BlockingLines == SelectSeq(reported, IsBlocking)

\* C30: in compact mode the issues=N value of the header line, totalIssues,
\* equals the number of issue lines printed after it whose tag is a blocking
\* type: every line except the ownership lines and, unless the dynamic
\* policy is strict, the dynamic lines.
C30_HeaderCountsBlockingLines ==
    RunDone => totalIssues(stats) = Len(BlockingLines)

\* C30 witness: a run under the strict policy has ended that printed
\* ownership lines, dynamic lines and lines of another blocking type, the
\* header counting fewer issues than there are lines.
C30_Witness ==
    /\ RunDone
    /\ config.dynamicImportPolicy = "strict"
    /\ ReportedOf("ownership") # <<>>
    /\ ReportedOf("dynamic") # <<>>
    /\ totalIssues(stats) > Len(ReportedOf("dynamic"))
    /\ totalIssues(stats) < Len(reported)

====
